---- MODULE Spec2Model ----
(***************************************************************************)
(* A model of the AnyList N-API binding (src/src/lib.rs, the full binding, *)
(* and src/native/src/lib.rs, the earlier Arc-based binding).  The facade  *)
(* is a thin layer over the anylist_rs client ("the Service"); the Service *)
(* is modelled as the environment: a store of recipes, favourites lists    *)
(* and shopping lists that answers each call atomically and may fail any   *)
(* call.  Every `.await` of the facade is one step of the model, so that   *)
(* a facade operation with two awaits is two steps other operations can    *)
(* interleave with.                                                        *)
(***************************************************************************)
EXTENDS Naturals, Sequences, FiniteSets, TLC

VARIABLES
    handles,    \* handle slot -> NoHandle or a live AnyListClient
    recipes,    \* Service: recipe id -> RsRecipe (ids of existing recipes)
    favLists,   \* Service: favourites-list id -> RsFavouritesList
    shopLists,  \* Service: shopping-list id -> RsList
    nextId,     \* Service: id counters [recipe, fav, item, list]
    inflight,   \* task slot -> Idle or an operation suspended after its first await
    last        \* the invocation that completed last (what its caller received)

vars == <<handles, recipes, favLists, shopLists, nextId, inflight, last>>

(***************************************************************************)
(* Bounds of the model.                                                    *)
(***************************************************************************)
MaxHandles == 1
MaxTasks == 2
MaxRecipes == 1
MaxFavItems == 1
MaxShopItems == 1
MaxLists == 2

HandleIds == 1..MaxHandles
Tasks == 1..MaxTasks

(***************************************************************************)
(* Option<T>, Result<T, E>.                                                *)
(***************************************************************************)
None == <<>>
Some(v) == <<v>>
IsSome(o) == o # <<>>
Unwrap(o) == o[1]

Ok(v) == [ok |-> TRUE, value |-> v]
Err(e) == [ok |-> FALSE, error |-> e]

(***************************************************************************)
(* Errors.  An AnyListError is modelled by its variant and by what its     *)
(* Display prints; a napi Error by its status and its reason.              *)
(***************************************************************************)
NetworkError == [kind |-> "Network", display |-> "Network error: connection reset"]
AuthError == [kind |-> "Auth", display |-> "Authentication failed: invalid credentials"]
NotFoundError(what) == [kind |-> "NotFound", display |-> "Not found: " \o what]

NapiError(status, reason) == [status |-> status, reason |-> reason]

\* An error mapping that reports the error's variant, not what it displays.
to_napi_error_kind(err) == NapiError("GenericFailure", err.kind)

\* fn to_napi_error(err): Error::new(Status::GenericFailure, format!("{}", err))
to_napi_error(err) == NapiError("GenericFailure", err.display)

\* napi's Error::from_reason(reason) is Error::new(Status::GenericFailure, reason)
from_reason(reason) == NapiError("GenericFailure", reason)

\* The native binding's closures |e| Error::from_reason(format!("<prefix>{}", e)).
NativePrefix(op) ==
    CASE op = "login" -> "Login failed: "
      [] op = "from_tokens" -> "Failed to create client from tokens: "
      [] op = "export_tokens" -> "Failed to export tokens: "
      [] op = "get_lists" -> "Failed to get lists: "
      [] op = "create_list" -> "Failed to create list: "
      [] op = "add_item" -> "Failed to add item: "
      [] op = "add_item_with_details" -> "Failed to add item: "

native_error(op, err) == from_reason(NativePrefix(op) \o err.display)

\* .map_err(f): the Ok value untouched, the Err value through f.
MapErrMain(res) == IF res.ok THEN res ELSE Err(to_napi_error(res.error))
MapErrNative(op, res) == IF res.ok THEN res ELSE Err(native_error(op, res.error))

(***************************************************************************)
(* Tokens.  anylist_rs::SavedTokens is built by the positional constructor *)
(* new(access_token, refresh_token, user_id, is_premium_user) and read by  *)
(* its four accessors; the boundary SavedTokens is a record.               *)
(***************************************************************************)
RsSavedTokensNew(access_token, refresh_token, user_id, is_premium_user) ==
    <<access_token, refresh_token, user_id, is_premium_user>>
RsAccessToken(tokens) == tokens[1]
RsRefreshToken(tokens) == tokens[2]
RsUserId(tokens) == tokens[3]
RsIsPremiumUser(tokens) == tokens[4]

\* impl From<RsSavedTokens> for SavedTokens (full binding)
SavedTokensFromRs(tokens) ==
    [user_id |-> RsUserId(tokens),
     access_token |-> RsAccessToken(tokens),
     refresh_token |-> RsRefreshToken(tokens),
     is_premium_user |-> RsIsPremiumUser(tokens)]

\* A conversion that passes refresh_token where access_token belongs.
RsFromSavedTokensSwapped(tokens) ==
    RsSavedTokensNew(tokens.refresh_token, tokens.access_token,
                     tokens.user_id, tokens.is_premium_user)

\* impl From<SavedTokens> for RsSavedTokens (full binding)
RsFromSavedTokens(tokens) ==
    RsSavedTokensNew(tokens.access_token, tokens.refresh_token,
                     tokens.user_id, tokens.is_premium_user)

\* impl From<anylist_rs::SavedTokens> for SavedTokens (native binding)
NativeSavedTokensFromRs(tokens) ==
    [access_token |-> RsAccessToken(tokens),
     refresh_token |-> RsRefreshToken(tokens),
     user_id |-> RsUserId(tokens),
     is_premium_user |-> RsIsPremiumUser(tokens)]

\* impl From<SavedTokens> for anylist_rs::SavedTokens (native binding)
NativeRsFromSavedTokens(tokens) ==
    RsSavedTokensNew(tokens.access_token, tokens.refresh_token,
                     tokens.user_id, tokens.is_premium_user)

(***************************************************************************)
(* The Service's view of sessions: the tokens it issues at login, the      *)
(* access token a refresh replaces them with, and the tokens it accepts.   *)
(***************************************************************************)
IssuedTokens == RsSavedTokensNew("access-1", "refresh-1", "user-1", TRUE)
RefreshedTokens(tokens) ==
    RsSavedTokensNew("access-2", RsRefreshToken(tokens), RsUserId(tokens),
                     RsIsPremiumUser(tokens))
AcceptedTokens == {IssuedTokens, RefreshedTokens(IssuedTokens)}

\* Tokens a caller may hold from an earlier run of the program.
StaleSavedTokens ==
    [access_token |-> "access-0", refresh_token |-> "refresh-0",
     user_id |-> "user-1", is_premium_user |-> FALSE]

Bindings == {"main", "native"}
Passwords == {"secret", "wrong"}

\* A session is the anylist_rs client a handle owns: its current tokens, and
\* (history, for the claims) the tokens it was built with.
Session(tokens) == [tokens |-> tokens, built |-> tokens]
NoSession == [tokens |-> None, built |-> None]

\* The outcome the Service's fault model allows for a call on a session:
\* a session with accepted tokens may still lose the network; any other
\* session is rejected.
Faults(session) ==
    IF session.tokens \in AcceptedTokens
    THEN {None, Some(NetworkError)}
    ELSE {Some(AuthError)}

(***************************************************************************)
(* Handles.  AnyListClient { inner }: the binding it belongs to, the       *)
(* session it owns and (history) the SavedTokens from_tokens was given.    *)
(***************************************************************************)
NoHandle == [binding |-> "none", inner |-> NoSession, given |-> None]
Handle(binding, inner, given) == [binding |-> binding, inner |-> inner, given |-> given]
Live(h) == handles[h] # NoHandle
FreeHandle == CHOOSE h \in HandleIds : ~Live(h) /\ \A g \in HandleIds : g < h => Live(g)

\* An invocation as its caller sees it once it has returned: the operation,
\* the handle, the arguments, the Service calls it made, in order, what the
\* first call fetched (two-call operations), and the result.
Call(fn, awaited, res) ==
    [fn |-> fn, awaited |-> awaited, ok |-> res.ok,
     error |-> IF res.ok THEN None ELSE Some(res.error)]
Invocation(op, binding, h, args, calls, fetched, result) ==
    [op |-> op, binding |-> binding, h |-> h, args |-> args, calls |-> calls,
     fetched |-> fetched, result |-> result]
NoInvocation == Invocation("none", "none", 0, <<>>, <<>>, None, Ok("none"))

Idle == [pc |-> "idle"]
\* A handle that lets one operation at a time wait for the Service.
FreeTaskExclusive(t) == t = 1 /\ \A u \in Tasks : inflight[u] = Idle

\* The slot a newly suspended operation takes: the first idle one.
FreeTask(t) == inflight[t] = Idle /\ \A u \in Tasks : u < t => inflight[u] # Idle

(***************************************************************************)
(* Session lifecycle.                                                      *)
(***************************************************************************)
InternalError == [kind |-> "Internal", display |-> "Internal error: client state unavailable"]

\* anylist_rs: AnyListClient::login(email, password)
SvcLogin(password, fault) ==
    IF IsSome(fault) THEN Err(Unwrap(fault))
    ELSE IF password = "secret" THEN Ok(Session(IssuedTokens))
    ELSE Err(AuthError)

\* anylist_rs: AnyListClient::from_tokens(tokens): no request is sent, the
\* tokens are stored as they are.
SvcFromTokens(rs_tokens, fault) ==
    IF IsSome(fault) THEN Err(Unwrap(fault)) ELSE Ok(Session(rs_tokens))

\* anylist_rs: AnyListClient::export_tokens(): the session's current tokens.
SvcExportTokens(session, fault) ==
    IF IsSome(fault) THEN Err(Unwrap(fault)) ELSE Ok(session.tokens)

\* The session a facade method reads through self.inner.
Inner(h) == handles[h].inner

\* A copy of the session as it was when the handle was built.
TokenStoreCached(h) == [handles[h].inner EXCEPT !.tokens = handles[h].inner.built]

\* The session get_tokens / export_tokens hand to the Service's
\* export_tokens: self.inner as it is when the method is called.
TokenStore(h) == handles[h].inner

\* A login that returns a handle whether or not the Service gave a session.
login_unchecked(svc) ==
    Ok(Handle("main", IF svc.ok THEN svc.value ELSE NoSession, None))

\* login (full binding): `?` on the mapped error, then Ok(AnyListClient { inner }).
login(svc) ==
    IF svc.ok THEN Ok(Handle("main", svc.value, None))
    ELSE Err(to_napi_error(svc.error))

\* login (native binding): Ok(Self { inner: Arc::new(client) }).
native_login(svc) ==
    IF svc.ok THEN Ok(Handle("native", svc.value, None))
    ELSE Err(native_error("login", svc.error))

\* A from_tokens that asks whether the Service accepts the tokens.
from_tokens_validated(tokens, svc) ==
    IF ~svc.ok THEN Err(to_napi_error(svc.error))
    ELSE IF svc.value.tokens \in AcceptedTokens
         THEN Ok(Handle("main", svc.value, Some(tokens)))
         ELSE Err(to_napi_error(AuthError))

\* from_tokens (full binding)
from_tokens(tokens, svc) ==
    IF svc.ok THEN Ok(Handle("main", svc.value, Some(tokens)))
    ELSE Err(to_napi_error(svc.error))

\* from_tokens (native binding)
native_from_tokens(tokens, svc) ==
    IF svc.ok THEN Ok(Handle("native", svc.value, Some(tokens)))
    ELSE Err(native_error("from_tokens", svc.error))

\* get_tokens (full binding)
get_tokens(svc) ==
    IF svc.ok THEN Ok(SavedTokensFromRs(svc.value))
    ELSE Err(to_napi_error(svc.error))

\* export_tokens (native binding)
export_tokens(svc) ==
    IF svc.ok THEN Ok(NativeSavedTokensFromRs(svc.value))
    ELSE Err(native_error("export_tokens", svc.error))

\* A constructor's caller receives the handle only in an Ok result.
Construct(op, binding, args, call, res) ==
    /\ \E h \in HandleIds : ~Live(h)
    /\ handles' = IF res.ok THEN [handles EXCEPT ![FreeHandle] = res.value] ELSE handles
    /\ last' = Invocation(op, binding, IF res.ok THEN FreeHandle ELSE 0, args,
                          <<call>>, None,
                          IF res.ok THEN Ok(FreeHandle) ELSE res)
    /\ UNCHANGED <<recipes, favLists, shopLists, nextId, inflight>>

Login(password) ==
    \E fault \in {None, Some(NetworkError)} :
        LET svc == SvcLogin(password, fault)
        IN Construct("login", "main", [password |-> password],
                     Call("login", TRUE, svc), login(svc))

NativeLogin(password) ==
    \E fault \in {None, Some(NetworkError)} :
        LET svc == SvcLogin(password, fault)
        IN Construct("login", "native", [password |-> password],
                     Call("login", TRUE, svc), native_login(svc))

\* SavedTokens a caller can pass: tokens kept from an earlier run, or the
\* tokens the last get_tokens / export_tokens returned.
TokenInputs ==
    {StaleSavedTokens} \cup
    (IF last.op \in {"get_tokens", "export_tokens"} /\ last.result.ok
     THEN {last.result.value} ELSE {})

FromTokens(tokens) ==
    \E fault \in {None, Some(InternalError)} :
        LET svc == SvcFromTokens(RsFromSavedTokens(tokens), fault)
        IN Construct("from_tokens", "main", [tokens |-> tokens],
                     Call("from_tokens", FALSE, svc), from_tokens(tokens, svc))

NativeFromTokens(tokens) ==
    \E fault \in {None, Some(InternalError)} :
        LET svc == SvcFromTokens(NativeRsFromSavedTokens(tokens), fault)
        IN Construct("from_tokens", "native", [tokens |-> tokens],
                     Call("from_tokens", FALSE, svc), native_from_tokens(tokens, svc))

GetTokens(h) ==
    /\ Live(h) /\ handles[h].binding = "main"
    /\ \E fault \in {None, Some(InternalError)} :
        LET svc == SvcExportTokens(TokenStore(h), fault)
        IN last' = Invocation("get_tokens", "main", h, <<>>,
                              <<Call("export_tokens", FALSE, svc)>>, None, get_tokens(svc))
    /\ UNCHANGED <<handles, recipes, favLists, shopLists, nextId, inflight>>

ExportTokens(h) ==
    /\ Live(h) /\ handles[h].binding = "native"
    /\ \E fault \in {None, Some(InternalError)} :
        LET svc == SvcExportTokens(TokenStore(h), fault)
        IN last' = Invocation("export_tokens", "native", h, <<>>,
                              <<Call("export_tokens", FALSE, svc)>>, None, export_tokens(svc))
    /\ UNCHANGED <<handles, recipes, favLists, shopLists, nextId, inflight>>

\* The Service refreshes a session's tokens behind the facade (interior
\* mutability of the anylist_rs client).
Refresh(h) ==
    /\ Live(h) /\ Inner(h).tokens = IssuedTokens
    /\ handles' = [handles EXCEPT ![h].inner.tokens = RefreshedTokens(@)]
    /\ UNCHANGED <<recipes, favLists, shopLists, nextId, inflight, last>>

\* The caller drops a handle; no method of it is suspended (each borrows self).
Drop(h) ==
    /\ Live(h)
    /\ \A t \in Tasks : inflight[t] # Idle => inflight[t].h # h
    /\ handles' = [handles EXCEPT ![h] = NoHandle]
    /\ UNCHANGED <<recipes, favLists, shopLists, nextId, inflight, last>>

(***************************************************************************)
(* Recipes.                                                                *)
(***************************************************************************)
\* A map that takes a present empty string for an absent value.
MapToStringNonEmpty(o) == IF IsSome(o) /\ Unwrap(o) # "" THEN Some(Unwrap(o)) ELSE None

\* Option::map(|s| s.to_string())
MapToString(o) == IF IsSome(o) THEN Some(Unwrap(o)) ELSE None

\* A conversion that keeps the ingredient's name and nothing else.
RsIngredientNameOnly(input) ==
    [name |-> input.name, quantity |-> None, note |-> None]

\* impl From<&IngredientInput> for RsIngredient: RsIngredient::new(name),
\* then quantity_of / note_of for the fields that are present.
RsIngredientFromInput(input) ==
    LET new == [name |-> input.name, quantity |-> None, note |-> None]
        withQty == IF IsSome(input.quantity)
                   THEN [new EXCEPT !.quantity = Some(Unwrap(input.quantity))] ELSE new
    IN IF IsSome(input.note)
       THEN [withQty EXCEPT !.note = Some(Unwrap(input.note))] ELSE withQty

\* impl From<&RsIngredient> for Ingredient
IngredientFromRs(ingredient) ==
    [name |-> ingredient.name,
     quantity |-> MapToString(ingredient.quantity),
     note |-> MapToString(ingredient.note)]

\* .iter().map(RsIngredient::from).collect() and .iter().map(Ingredient::from).collect()
RsIngredientsFromInputs(inputs) == [i \in 1..Len(inputs) |-> RsIngredientFromInput(inputs[i])]
IngredientsFromRs(ingredients) == [i \in 1..Len(ingredients) |-> IngredientFromRs(ingredients[i])]

\* impl From<&RsRecipe> for Recipe
RecipeFromRs(recipe) ==
    [id |-> recipe.id,
     name |-> recipe.name,
     ingredients |-> IngredientsFromRs(recipe.ingredients),
     preparation_steps |-> recipe.preparation_steps,
     note |-> MapToString(recipe.note),
     source_name |-> MapToString(recipe.source_name),
     source_url |-> MapToString(recipe.source_url),
     servings |-> MapToString(recipe.servings),
     prep_time |-> recipe.prep_time,
     cook_time |-> recipe.cook_time,
     rating |-> recipe.rating,
     nutritional_info |-> MapToString(recipe.nutritional_info),
     photo_id |-> MapToString(recipe.photo_id)]

\* anylist_rs: RecipeBuilder::new(name): no id, nothing set.
RecipeBuilderNew(name) ==
    [id |-> None, name |-> name, ingredients |-> <<>>, preparation_steps |-> <<>>,
     note |-> None, source_name |-> None, source_url |-> None, servings |-> None,
     prep_time |-> None, cook_time |-> None, rating |-> None,
     nutritional_info |-> None, photo_id |-> None]

\* anylist_rs: RecipeBuilder::from(&existing): the existing recipe as the base
\* of the builder, its id kept so that save() rewrites that recipe.
RecipeBuilderFrom(existing) ==
    [id |-> Some(existing.id), name |-> existing.name,
     ingredients |-> existing.ingredients,
     preparation_steps |-> existing.preparation_steps,
     note |-> existing.note, source_name |-> existing.source_name,
     source_url |-> existing.source_url, servings |-> existing.servings,
     prep_time |-> existing.prep_time, cook_time |-> existing.cook_time,
     rating |-> existing.rating, nutritional_info |-> existing.nutritional_info,
     photo_id |-> existing.photo_id]

\* A setter called with the option as it is, present or absent.
SetAlways(option, current) == option

\* if let Some(x) = option { builder = builder.field(x); }
IfLetSome(option, current) == IF IsSome(option) THEN Some(Unwrap(option)) ELSE current

\* create_recipe, up to the save: the builder it hands to the Service.
create_recipe_builder(options) ==
    LET builder == [RecipeBuilderNew(options.name) EXCEPT
                        !.ingredients = RsIngredientsFromInputs(options.ingredients),
                        !.preparation_steps = options.preparation_steps]
    IN [builder EXCEPT
          !.note = IfLetSome(options.note, @),
          !.source_name = IfLetSome(options.source_name, @),
          !.source_url = IfLetSome(options.source_url, @),
          !.servings = IfLetSome(options.servings, @),
          !.prep_time = IfLetSome(options.prep_time, @),
          !.cook_time = IfLetSome(options.cook_time, @),
          !.rating = IfLetSome(options.rating, @),
          !.nutritional_info = IfLetSome(options.nutritional_info, @),
          !.photo_id = IfLetSome(options.photo_id, @)]

\* An update that falls back to a new builder when the fetch has failed.
update_recipe_base_fallback(svc, options) ==
    IF svc.ok THEN Ok(RecipeBuilderFrom(svc.value))
    ELSE Ok(RecipeBuilderNew(options.name))

\* update_recipe, after its first await: `?` returns the mapped error, and
\* otherwise RecipeBuilder::from(&existing) is the base of what is saved.
update_recipe_base(svc, options) ==
    IF svc.ok THEN Ok(RecipeBuilderFrom(svc.value))
    ELSE Err(to_napi_error(svc.error))

\* An update that starts its builder from options.name, as create_recipe does.
update_recipe_builder_renamed(base, options) ==
    LET builder == [base EXCEPT
                        !.name = options.name,
                        !.ingredients = RsIngredientsFromInputs(options.ingredients),
                        !.preparation_steps = options.preparation_steps]
    IN [builder EXCEPT
          !.note = IF IsSome(options.note) THEN options.note ELSE @,
          !.source_name = IF IsSome(options.source_name) THEN options.source_name ELSE @,
          !.source_url = IF IsSome(options.source_url) THEN options.source_url ELSE @,
          !.servings = IF IsSome(options.servings) THEN options.servings ELSE @,
          !.prep_time = IF IsSome(options.prep_time) THEN options.prep_time ELSE @,
          !.cook_time = IF IsSome(options.cook_time) THEN options.cook_time ELSE @,
          !.rating = IF IsSome(options.rating) THEN options.rating ELSE @,
          !.nutritional_info = IF IsSome(options.nutritional_info)
                               THEN options.nutritional_info ELSE @,
          !.photo_id = IF IsSome(options.photo_id) THEN options.photo_id ELSE @]

\* update_recipe, between the fetch and the save: the builder it hands to
\* the Service.  options.name is not read.
update_recipe_builder(base, options) ==
    LET builder == [base EXCEPT
                        !.ingredients = RsIngredientsFromInputs(options.ingredients),
                        !.preparation_steps = options.preparation_steps]
    IN [builder EXCEPT
          !.note = IfLetSome(options.note, @),
          !.source_name = IfLetSome(options.source_name, @),
          !.source_url = IfLetSome(options.source_url, @),
          !.servings = IfLetSome(options.servings, @),
          !.prep_time = IfLetSome(options.prep_time, @),
          !.cook_time = IfLetSome(options.cook_time, @),
          !.rating = IfLetSome(options.rating, @),
          !.nutritional_info = IfLetSome(options.nutritional_info, @),
          !.photo_id = IfLetSome(options.photo_id, @)]

\* The recipe a builder describes, under the id the Service stores it with.
BuiltRecipe(builder, id) ==
    [id |-> id, name |-> builder.name, ingredients |-> builder.ingredients,
     preparation_steps |-> builder.preparation_steps,
     note |-> builder.note, source_name |-> builder.source_name,
     source_url |-> builder.source_url, servings |-> builder.servings,
     prep_time |-> builder.prep_time, cook_time |-> builder.cook_time,
     rating |-> builder.rating, nutritional_info |-> builder.nutritional_info,
     photo_id |-> builder.photo_id]

\* anylist_rs: RecipeBuilder::save(client): a builder with an id rewrites that
\* recipe, a builder without one creates a recipe under a fresh id.
SaveId(builder) == IF IsSome(builder.id) THEN Unwrap(builder.id) ELSE nextId.recipe
SvcSaveRecipe(builder, fault) ==
    IF IsSome(fault) THEN Err(Unwrap(fault))
    ELSE Ok(BuiltRecipe(builder, SaveId(builder)))

\* anylist_rs: get_recipe_by_id(recipe_id)
SvcGetRecipeById(recipe_id, fault) ==
    IF IsSome(fault) THEN Err(Unwrap(fault))
    ELSE IF recipe_id \in DOMAIN recipes THEN Ok(recipes[recipe_id])
    ELSE Err(NotFoundError("recipe"))

\* anylist_rs: delete_recipe(recipe_id)
SvcDeleteRecipe(recipe_id, fault) ==
    IF IsSome(fault) THEN Err(Unwrap(fault))
    ELSE IF recipe_id \in DOMAIN recipes THEN Ok("unit")
    ELSE Err(NotFoundError("recipe"))

RecipeIds == 1..MaxRecipes

\* CreateRecipeOptions a caller may pass.
OptionsFull ==
    [name |-> "Pancakes",
     ingredients |-> <<[name |-> "Flour", quantity |-> Some("2 cups"), note |-> None],
                       [name |-> "Milk", quantity |-> Some("1 cup"), note |-> Some("")]>>,
     preparation_steps |-> <<"Mix", "Cook">>,
     note |-> Some("Sunday"), source_name |-> Some("Web"),
     source_url |-> Some("https://example.org/p"), servings |-> Some("4 servings"),
     prep_time |-> Some(10), cook_time |-> Some(20), rating |-> Some(4),
     nutritional_info |-> Some("200 kcal"), photo_id |-> Some("photo-1")]
OptionsRated ==
    [name |-> "Waffles",
     ingredients |-> <<[name |-> "Flour", quantity |-> None, note |-> None]>>,
     preparation_steps |-> <<"Mix">>,
     note |-> Some(""), source_name |-> None, source_url |-> None, servings |-> None,
     prep_time |-> None, cook_time |-> None, rating |-> Some(5),
     nutritional_info |-> None, photo_id |-> None]
RecipeOptions == {OptionsFull, OptionsRated}

\* An operation that calls the Service again when its call has failed.
OneCallRetried(fn, svc) ==
    IF svc.ok THEN <<Call(fn, TRUE, svc)>>
    ELSE <<Call(fn, TRUE, svc), Call(fn, TRUE, svc)>>

\* The Service calls of an operation that awaits the Service once.
OneCall(fn, svc) == <<Call(fn, TRUE, svc)>>

\* The store after the Service has saved `recipe`.
Saved(recipe) ==
    [i \in DOMAIN recipes \cup {recipe.id} |->
        IF i = recipe.id THEN recipe ELSE recipes[i]]

MainHandle(h) == Live(h) /\ handles[h].binding = "main"
NativeHandle(h) == Live(h) /\ handles[h].binding = "native"

CreateRecipe(h, options) ==
    /\ MainHandle(h)
    /\ \E fault \in Faults(Inner(h)) :
        LET svc == SvcSaveRecipe(create_recipe_builder(options), fault)
            result == IF svc.ok THEN Ok(RecipeFromRs(svc.value))
                      ELSE Err(to_napi_error(svc.error))
        IN /\ recipes' = IF svc.ok THEN Saved(svc.value) ELSE recipes
           /\ nextId' = IF svc.ok THEN [nextId EXCEPT !.recipe = @ + 1] ELSE nextId
           /\ last' = Invocation("create_recipe", "main", h, [options |-> options],
                                 OneCall("save_recipe", svc), None, result)
    /\ UNCHANGED <<handles, favLists, shopLists, inflight>>

GetRecipeById(h, recipe_id) ==
    /\ MainHandle(h)
    /\ \E fault \in Faults(Inner(h)) :
        LET svc == SvcGetRecipeById(recipe_id, fault)
            result == IF svc.ok THEN Ok(RecipeFromRs(svc.value))
                      ELSE Err(to_napi_error(svc.error))
        IN last' = Invocation("get_recipe_by_id", "main", h, [recipe_id |-> recipe_id],
                              OneCall("get_recipe_by_id", svc), None, result)
    /\ UNCHANGED <<handles, recipes, favLists, shopLists, nextId, inflight>>

DeleteRecipe(h, recipe_id) ==
    /\ MainHandle(h)
    /\ \E fault \in Faults(Inner(h)) :
        LET svc == SvcDeleteRecipe(recipe_id, fault)
        IN /\ recipes' = IF svc.ok
                         THEN [i \in DOMAIN recipes \ {recipe_id} |-> recipes[i]]
                         ELSE recipes
           /\ last' = Invocation("delete_recipe", "main", h, [recipe_id |-> recipe_id],
                                 OneCall("delete_recipe", svc), None, MapErrMain(svc))
    /\ UNCHANGED <<handles, favLists, shopLists, nextId, inflight>>

\* update_recipe up to and including its first await (get_recipe_by_id): it
\* returns the error, or stays suspended with the builder's base.
UpdateRecipeFetch(t, h, recipe_id, options) ==
    /\ MainHandle(h) /\ FreeTask(t)
    /\ \E fault \in Faults(Inner(h)) :
        LET svc == SvcGetRecipeById(recipe_id, fault)
            base == update_recipe_base(svc, options)
            args == [recipe_id |-> recipe_id, options |-> options]
            calls == <<Call("get_recipe_by_id", TRUE, svc)>>
            fetched == IF svc.ok THEN Some(svc.value) ELSE None
        IN IF base.ok
           THEN /\ inflight' = [inflight EXCEPT ![t] =
                        [pc |-> "update_recipe", h |-> h, args |-> args, calls |-> calls,
                         fetched |-> fetched, base |-> base.value]]
                /\ last' = last
           ELSE /\ last' = Invocation("update_recipe", "main", h, args, calls, fetched, base)
                /\ inflight' = inflight
    /\ UNCHANGED <<handles, recipes, favLists, shopLists, nextId>>

\* update_recipe from its first await to its return: the builder is filled
\* from the options and saved (second await).
UpdateRecipeSave(t) ==
    /\ inflight[t] # Idle /\ inflight[t].pc = "update_recipe"
    /\ \E fault \in Faults(Inner(inflight[t].h)) :
        LET task == inflight[t]
            builder == update_recipe_builder(task.base, task.args.options)
            svc == SvcSaveRecipe(builder, fault)
            result == IF svc.ok THEN Ok(RecipeFromRs(svc.value))
                      ELSE Err(to_napi_error(svc.error))
        IN /\ recipes' = IF svc.ok THEN Saved(svc.value) ELSE recipes
           /\ nextId' = IF svc.ok /\ ~IsSome(builder.id)
                        THEN [nextId EXCEPT !.recipe = @ + 1] ELSE nextId
           /\ last' = Invocation("update_recipe", "main", task.h, task.args,
                                 Append(task.calls, Call("save_recipe", TRUE, svc)),
                                 task.fetched, result)
    /\ inflight' = [inflight EXCEPT ![t] = Idle]
    /\ UNCHANGED <<handles, favLists, shopLists>>

(***************************************************************************)
(* Shopping lists and favourites (starter lists).                          *)
(***************************************************************************)
FavListIds == {"F1"}
ShopListIds == {"S1"}
\* List ids a caller may pass where a list id is expected.
ListIdInputs == FavListIds \cup ShopListIds
\* The id the Service gives to the n-th shopping list of the account.
ListId(n) == "S" \o <<"1", "2", "3", "4", "5", "6", "7", "8", "9">>[n]
\* Shopping-list ids a caller may pass: the ids the Service can assign.
ListIdArgs == {ListId(n) : n \in 1..MaxLists}
ListNames == {"Groceries", "Party"}
\* The ids of the account's shopping lists, in the order they were created.
ListOrder ==
    SelectSeq([n \in 1..(nextId.list - 1) |-> ListId(n)],
              LAMBDA l : l \in DOMAIN shopLists)
\* Favourite ids a caller may pass: those the Service can assign, and one it never assigns.
FavItemIds == 1..(MaxFavItems + 1)
Categories == {None, Some("Dairy")}

\* impl From<&RsListItem> for ListItem (full binding)
ListItemFromRs(item) ==
    [id |-> item.id,
     name |-> item.name,
     checked |-> item.is_checked,
     quantity |-> MapToString(item.quantity),
     note |-> item.details,
     category |-> MapToString(item.category)]

\* impl From<&anylist_rs::ListItem> for ListItem (native binding)
NativeListItemFromRs(item) ==
    [id |-> item.id,
     list_id |-> item.list_id,
     name |-> item.name,
     details |-> item.details,
     is_checked |-> item.is_checked,
     quantity |-> MapToString(item.quantity),
     category |-> MapToString(item.category),
     user_id |-> MapToString(item.user_id),
     product_upc |-> MapToString(item.product_upc)]

\* impl From<&RsList> for List (full binding)
ListFromRs(list) ==
    [id |-> list.id, name |-> list.name,
     items |-> [i \in 1..Len(list.items) |-> ListItemFromRs(list.items[i])]]

\* impl From<&anylist_rs::List> for List (native binding)
NativeListFromRs(list) ==
    [id |-> list.id, name |-> list.name,
     items |-> [i \in 1..Len(list.items) |-> NativeListItemFromRs(list.items[i])]]

\* impl From<&RsFavouriteItem> for FavouriteItem
FavouriteItemFromRs(item) ==
    [id |-> item.id,
     list_id |-> item.list_id,
     name |-> item.name,
     quantity |-> MapToString(item.quantity),
     details |-> MapToString(item.details),
     category |-> MapToString(item.category)]

\* impl From<&RsFavouritesList> for FavouritesList
FavouritesListFromRs(list) ==
    [id |-> list.id, name |-> list.name,
     items |-> [i \in 1..Len(list.items) |-> FavouriteItemFromRs(list.items[i])],
     shopping_list_id |-> MapToString(list.shopping_list_id)]

\* anylist_rs: get_lists()
SvcGetLists(fault) ==
    IF IsSome(fault) THEN Err(Unwrap(fault))
    ELSE Ok([i \in 1..Len(ListOrder) |-> shopLists[ListOrder[i]]])

\* anylist_rs: add_item(list_id, name)
SvcAddItem(list_id, name, user_id, fault) ==
    IF IsSome(fault) THEN Err(Unwrap(fault))
    ELSE IF list_id \in DOMAIN shopLists
    THEN Ok([id |-> nextId.item, list_id |-> list_id, name |-> name, details |-> "",
             is_checked |-> FALSE, quantity |-> None, category |-> None,
             user_id |-> Some(user_id), product_upc |-> None])
    ELSE Err(NotFoundError("list"))

\* anylist_rs: get_favourites_for_list(shopping_list_id): the favourites list
\* associated with that shopping list.
SvcGetFavouritesForList(shopping_list_id, fault) ==
    LET matches == {l \in DOMAIN favLists :
                        favLists[l].shopping_list_id = Some(shopping_list_id)}
    IN IF IsSome(fault) THEN Err(Unwrap(fault))
       ELSE IF matches # {} THEN Ok(favLists[CHOOSE l \in matches : TRUE])
       ELSE Err(NotFoundError("favourites list"))

\* anylist_rs: add_favourite_to_list(list_id, name, category)
SvcAddFavouriteToList(list_id, name, category, fault) ==
    IF IsSome(fault) THEN Err(Unwrap(fault))
    ELSE IF list_id \in DOMAIN favLists
    THEN Ok([id |-> nextId.fav, list_id |-> list_id, name |-> name,
             quantity |-> None, details |-> None, category |-> category])
    ELSE Err(NotFoundError("favourites list"))

HasItem(items, id) == \E i \in 1..Len(items) : items[i].id = id
Without(items, id) == SelectSeq(items, LAMBDA x : x.id # id)

\* anylist_rs: remove_favourite(list_id, item_id)
SvcRemoveFavourite(list_id, item_id, fault) ==
    IF IsSome(fault) THEN Err(Unwrap(fault))
    ELSE IF list_id \in DOMAIN favLists /\ HasItem(favLists[list_id].items, item_id)
    THEN Ok("unit")
    ELSE Err(NotFoundError("favourite item"))

\* anylist_rs: add_favourite_to_shopping_list(favourite, shopping_list_id): a
\* new item of the shopping list, copied from the favourite it is handed.
SvcAddFavouriteToShoppingList(favourite, shopping_list_id, user_id, fault) ==
    IF IsSome(fault) THEN Err(Unwrap(fault))
    ELSE IF shopping_list_id \in DOMAIN shopLists
    THEN Ok([id |-> nextId.item, list_id |-> shopping_list_id,
             name |-> favourite.name,
             details |-> IF IsSome(favourite.details) THEN Unwrap(favourite.details) ELSE "",
             is_checked |-> FALSE, quantity |-> favourite.quantity,
             category |-> favourite.category,
             user_id |-> Some(user_id), product_upc |-> None])
    ELSE Err(NotFoundError("list"))

\* A lookup that takes the first favourite whatever its id.
FindFavouriteAny(items, favourite_id) ==
    IF Len(items) = 0 THEN None ELSE Some(items[1])

\* favourites_list.items().iter().find(|f| f.id() == favourite_id)
FindFavourite(items, favourite_id) ==
    LET hits == {i \in 1..Len(items) : items[i].id = favourite_id}
    IN IF hits = {} THEN None
       ELSE Some(items[CHOOSE i \in hits : \A j \in hits : i <= j])

\* A lookup that settles for the first favourite when the id is not found.
add_favourite_lookup_fallback(svc, favourite_id) ==
    IF ~svc.ok THEN Err(to_napi_error(svc.error))
    ELSE LET found == FindFavourite(svc.value.items, favourite_id)
         IN IF IsSome(found) THEN Ok(Unwrap(found))
            ELSE IF Len(svc.value.items) > 0 THEN Ok(svc.value.items[1])
            ELSE Err(NapiError("GenericFailure", "Favourite item not found"))

\* add_favourite_to_shopping_list, after its first await: `?` on the fetch,
\* then the facade's own lookup, .ok_or_else(..)? on its result.
add_favourite_lookup(svc, favourite_id) ==
    IF ~svc.ok THEN Err(to_napi_error(svc.error))
    ELSE LET found == FindFavourite(svc.value.items, favourite_id)
         IN IF IsSome(found) THEN Ok(Unwrap(found))
            ELSE Err(NapiError("GenericFailure", "Favourite item not found"))

\* The shopping lists after the Service has appended `item` to its list.
WithItem(item) ==
    [shopLists EXCEPT ![item.list_id].items = Append(@, item)]

GetLists(h) ==
    /\ MainHandle(h)
    /\ \E fault \in Faults(Inner(h)) :
        LET svc == SvcGetLists(fault)
            result == IF svc.ok
                      THEN Ok([i \in 1..Len(svc.value) |-> ListFromRs(svc.value[i])])
                      ELSE Err(to_napi_error(svc.error))
        IN last' = Invocation("get_lists", "main", h, <<>>,
                              OneCall("get_lists", svc), None, result)
    /\ UNCHANGED <<handles, recipes, favLists, shopLists, nextId, inflight>>

NativeGetLists(h) ==
    /\ NativeHandle(h)
    /\ \E fault \in Faults(Inner(h)) :
        LET svc == SvcGetLists(fault)
            result == IF svc.ok
                      THEN Ok([i \in 1..Len(svc.value) |-> NativeListFromRs(svc.value[i])])
                      ELSE Err(native_error("get_lists", svc.error))
        IN last' = Invocation("get_lists", "native", h, <<>>,
                              OneCall("get_lists", svc), None, result)
    /\ UNCHANGED <<handles, recipes, favLists, shopLists, nextId, inflight>>

AddItem(h, list_id, name) ==
    /\ MainHandle(h)
    /\ \E fault \in Faults(Inner(h)) :
        LET svc == SvcAddItem(list_id, name, RsUserId(Inner(h).tokens), fault)
            result == IF svc.ok THEN Ok(ListItemFromRs(svc.value))
                      ELSE Err(to_napi_error(svc.error))
        IN /\ shopLists' = IF svc.ok THEN WithItem(svc.value) ELSE shopLists
           /\ nextId' = IF svc.ok THEN [nextId EXCEPT !.item = @ + 1] ELSE nextId
           /\ last' = Invocation("add_item", "main", h,
                                 [list_id |-> list_id, name |-> name],
                                 OneCall("add_item", svc), None, result)
    /\ UNCHANGED <<handles, recipes, favLists, inflight>>

NativeAddItem(h, list_id, name) ==
    /\ NativeHandle(h)
    /\ \E fault \in Faults(Inner(h)) :
        LET svc == SvcAddItem(list_id, name, RsUserId(Inner(h).tokens), fault)
            result == IF svc.ok THEN Ok(NativeListItemFromRs(svc.value))
                      ELSE Err(native_error("add_item", svc.error))
        IN /\ shopLists' = IF svc.ok THEN WithItem(svc.value) ELSE shopLists
           /\ nextId' = IF svc.ok THEN [nextId EXCEPT !.item = @ + 1] ELSE nextId
           /\ last' = Invocation("add_item", "native", h,
                                 [list_id |-> list_id, name |-> name],
                                 OneCall("add_item", svc), None, result)
    /\ UNCHANGED <<handles, recipes, favLists, inflight>>

GetFavouritesForList(h, shopping_list_id) ==
    /\ MainHandle(h)
    /\ \E fault \in Faults(Inner(h)) :
        LET svc == SvcGetFavouritesForList(shopping_list_id, fault)
            result == IF svc.ok THEN Ok(FavouritesListFromRs(svc.value))
                      ELSE Err(to_napi_error(svc.error))
        IN last' = Invocation("get_favourites_for_list", "main", h,
                              [shopping_list_id |-> shopping_list_id],
                              OneCall("get_favourites_for_list", svc), None, result)
    /\ UNCHANGED <<handles, recipes, favLists, shopLists, nextId, inflight>>

AddFavouriteToList(h, list_id, name, category) ==
    /\ MainHandle(h)
    /\ \E fault \in Faults(Inner(h)) :
        LET svc == SvcAddFavouriteToList(list_id, name, category, fault)
            result == IF svc.ok THEN Ok(FavouriteItemFromRs(svc.value))
                      ELSE Err(to_napi_error(svc.error))
        IN /\ favLists' = IF svc.ok
                          THEN [favLists EXCEPT ![list_id].items = Append(@, svc.value)]
                          ELSE favLists
           /\ nextId' = IF svc.ok THEN [nextId EXCEPT !.fav = @ + 1] ELSE nextId
           /\ last' = Invocation("add_favourite_to_list", "main", h,
                                 [list_id |-> list_id, name |-> name, category |-> category],
                                 OneCall("add_favourite_to_list", svc), None, result)
    /\ UNCHANGED <<handles, recipes, shopLists, inflight>>

RemoveFavourite(h, list_id, item_id) ==
    /\ MainHandle(h)
    /\ \E fault \in Faults(Inner(h)) :
        LET svc == SvcRemoveFavourite(list_id, item_id, fault)
        IN /\ favLists' = IF svc.ok
                          THEN [favLists EXCEPT ![list_id].items = Without(@, item_id)]
                          ELSE favLists
           /\ last' = Invocation("remove_favourite", "main", h,
                                 [list_id |-> list_id, item_id |-> item_id],
                                 OneCall("remove_favourite", svc), None, MapErrMain(svc))
    /\ UNCHANGED <<handles, recipes, shopLists, nextId, inflight>>

\* add_favourite_to_shopping_list up to and including its first await
\* (get_favourites_for_list) and the lookup that follows it.
AddFavouriteToShoppingListFetch(t, h, favourite_list_id, favourite_id, shopping_list_id) ==
    /\ MainHandle(h) /\ FreeTask(t)
    /\ \E fault \in Faults(Inner(h)) :
        LET svc == SvcGetFavouritesForList(favourite_list_id, fault)
            favourite == add_favourite_lookup(svc, favourite_id)
            args == [favourite_list_id |-> favourite_list_id,
                     favourite_id |-> favourite_id,
                     shopping_list_id |-> shopping_list_id]
            calls == <<Call("get_favourites_for_list", TRUE, svc)>>
            fetched == IF svc.ok THEN Some(svc.value) ELSE None
        IN IF favourite.ok
           THEN /\ inflight' = [inflight EXCEPT ![t] =
                        [pc |-> "add_favourite_to_shopping_list", h |-> h, args |-> args,
                         calls |-> calls, fetched |-> fetched, base |-> favourite.value]]
                /\ last' = last
           ELSE /\ last' = Invocation("add_favourite_to_shopping_list", "main", h, args,
                                      calls, fetched, favourite)
                /\ inflight' = inflight
    /\ UNCHANGED <<handles, recipes, favLists, shopLists, nextId>>

\* add_favourite_to_shopping_list from its first await to its return: the
\* favourite found is handed to the Service (second await).
AddFavouriteToShoppingListAdd(t) ==
    /\ inflight[t] # Idle /\ inflight[t].pc = "add_favourite_to_shopping_list"
    /\ \E fault \in Faults(Inner(inflight[t].h)) :
        LET task == inflight[t]
            svc == SvcAddFavouriteToShoppingList(task.base, task.args.shopping_list_id,
                        RsUserId(Inner(task.h).tokens), fault)
            result == IF svc.ok THEN Ok(ListItemFromRs(svc.value))
                      ELSE Err(to_napi_error(svc.error))
        IN /\ shopLists' = IF svc.ok THEN WithItem(svc.value) ELSE shopLists
           /\ nextId' = IF svc.ok THEN [nextId EXCEPT !.item = @ + 1] ELSE nextId
           /\ last' = Invocation("add_favourite_to_shopping_list", "main", task.h, task.args,
                                 Append(task.calls,
                                        Call("add_favourite_to_shopping_list", TRUE, svc)),
                                 task.fetched, result)
    /\ inflight' = [inflight EXCEPT ![t] = Idle]
    /\ UNCHANGED <<handles, recipes, favLists>>

\* Item ids a caller may pass: those the Service can assign, and one it never assigns.
ItemIds == 1..(MaxShopItems + 1)
ItemIdLists == {<<>>, <<1>>, <<1, MaxShopItems + 1>>, <<MaxShopItems + 1, 1>>}
Quantities == {None, Some("2 l")}
Notes == {None, Some("")}

\* A Service call together with the arguments the facade handed to it.
CallWith(fn, awaited, res, sent) ==
    [fn |-> fn, awaited |-> awaited, ok |-> res.ok,
     error |-> IF res.ok THEN None ELSE Some(res.error), sent |-> sent]

\* An as_deref that hands an empty string for an absent value.
AsDerefOrEmpty(o) == IF IsSome(o) THEN Some(Unwrap(o)) ELSE Some("")

\* Option<String>::as_deref(): Some(&str) of a present value, None of an absent one.
AsDeref(o) == IF IsSome(o) THEN Some(Unwrap(o)) ELSE None

\* What update_item hands to the Service's update_item.
update_item_args(list_id, item_id, name, quantity, note, category) ==
    [list_id |-> list_id, item_id |-> item_id, name |-> name,
     quantity |-> AsDeref(quantity), details |-> AsDeref(note),
     category |-> AsDeref(category)]

\* anylist_rs: update_item(list_id, item_id, name, quantity, details, category):
\* the item's four mutable fields become the ones handed over; details,
\* which the Service keeps as a string, is empty when none is handed over.
SvcUpdateItem(sent, fault) ==
    IF IsSome(fault) THEN Err(Unwrap(fault))
    ELSE IF sent.list_id \in DOMAIN shopLists
            /\ HasItem(shopLists[sent.list_id].items, sent.item_id)
    THEN Ok([shopLists EXCEPT ![sent.list_id].items =
                [i \in 1..Len(@) |->
                    IF @[i].id = sent.item_id
                    THEN [@[i] EXCEPT
                            !.name = sent.name,
                            !.quantity = sent.quantity,
                            !.details = IF IsSome(sent.details)
                                        THEN Unwrap(sent.details) ELSE "",
                            !.category = sent.category]
                    ELSE @[i]]])
    ELSE Err(NotFoundError("item"))

UpdateItem(h, list_id, item_id, name, quantity, note, category) ==
    /\ MainHandle(h)
    /\ \E fault \in Faults(Inner(h)) :
        LET sent == update_item_args(list_id, item_id, name, quantity, note, category)
            svc == SvcUpdateItem(sent, fault)
            result == IF svc.ok THEN Ok("unit") ELSE Err(to_napi_error(svc.error))
        IN /\ shopLists' = IF svc.ok THEN svc.value ELSE shopLists
           /\ last' = Invocation("update_item", "main", h,
                                 [list_id |-> list_id, item_id |-> item_id, name |-> name,
                                  quantity |-> quantity, note |-> note,
                                  category |-> category],
                                 <<CallWith("update_item", TRUE, svc, sent)>>, None, result)
    /\ UNCHANGED <<handles, recipes, favLists, nextId, inflight>>

\* A collection of the ids that stops after the first one.
ItemIdRefsFirst(item_ids) == SubSeq(item_ids, 1, IF Len(item_ids) > 0 THEN 1 ELSE 0)

\* item_ids.iter().map(|s| s.as_str()).collect(): one &str per id, in order.
ItemIdRefs(item_ids) == [i \in 1..Len(item_ids) |-> item_ids[i]]

\* anylist_rs: bulk_delete_items(list_id, item_ids): one request that
\* deletes every id handed over; an id the list does not hold deletes nothing.
SvcBulkDeleteItems(list_id, item_id_refs, fault) ==
    IF IsSome(fault) THEN Err(Unwrap(fault))
    ELSE IF list_id \in DOMAIN shopLists
    THEN Ok([shopLists EXCEPT ![list_id].items =
                SelectSeq(@, LAMBDA x :
                    \A i \in 1..Len(item_id_refs) : item_id_refs[i] # x.id)])
    ELSE Err(NotFoundError("list"))

BulkDeleteItems(h, list_id, item_ids) ==
    /\ MainHandle(h)
    /\ \E fault \in Faults(Inner(h)) :
        LET item_id_refs == ItemIdRefs(item_ids)
            svc == SvcBulkDeleteItems(list_id, item_id_refs, fault)
            result == IF svc.ok THEN Ok("unit") ELSE Err(to_napi_error(svc.error))
        IN /\ shopLists' = IF svc.ok THEN svc.value ELSE shopLists
           /\ last' = Invocation("bulk_delete_items", "main", h,
                                 [list_id |-> list_id, item_ids |-> item_ids],
                                 <<CallWith("bulk_delete_items", TRUE, svc,
                                            [list_id |-> list_id,
                                             item_ids |-> item_id_refs])>>,
                                 None, result)
    /\ UNCHANGED <<handles, recipes, favLists, nextId, inflight>>

(***************************************************************************)
(* Shopping lists: their lifecycle and the items in them.                  *)
(***************************************************************************)
\* The Service call of a method that awaits the Service once, with the
\* arguments handed to it.
OneCallWith(fn, svc, sent) == <<CallWith(fn, TRUE, svc, sent)>>

\* The shopping lists after the Service has stored `list`.
WithList(list) ==
    [l \in DOMAIN shopLists \cup {list.id} |->
        IF l = list.id THEN list ELSE shopLists[l]]

\* The shopping lists after the Service has appended `items` to a list.
WithItems(list_id, items) ==
    [shopLists EXCEPT ![list_id].items = @ \o items]

\* anylist_rs: the item the Service creates: unchecked, owned by the
\* session's user; details, which it keeps as a string, empty when none is
\* handed over.
RsListItemNew(id, list_id, name, quantity, details, category, user_id) ==
    [id |-> id, list_id |-> list_id, name |-> name,
     details |-> IF IsSome(details) THEN Unwrap(details) ELSE "",
     is_checked |-> FALSE, quantity |-> quantity, category |-> category,
     user_id |-> Some(user_id), product_upc |-> None]

\* anylist_rs: create_list(name): a new, empty list under a fresh id.
SvcCreateList(name, fault) ==
    IF IsSome(fault) THEN Err(Unwrap(fault))
    ELSE Ok([id |-> ListId(nextId.list), name |-> name, items |-> <<>>])

\* anylist_rs: get_list_by_id(list_id)
SvcGetListById(list_id, fault) ==
    IF IsSome(fault) THEN Err(Unwrap(fault))
    ELSE IF list_id \in DOMAIN shopLists THEN Ok(shopLists[list_id])
    ELSE Err(NotFoundError("list"))

\* anylist_rs: get_list_by_name(name): the first list of that name.
SvcGetListByName(name, fault) ==
    LET hits == {i \in 1..Len(ListOrder) : shopLists[ListOrder[i]].name = name}
    IN IF IsSome(fault) THEN Err(Unwrap(fault))
       ELSE IF hits # {}
       THEN Ok(shopLists[ListOrder[CHOOSE i \in hits : \A j \in hits : i <= j]])
       ELSE Err(NotFoundError("list"))

\* anylist_rs: rename_list(list_id, new_name)
SvcRenameList(list_id, new_name, fault) ==
    IF IsSome(fault) THEN Err(Unwrap(fault))
    ELSE IF list_id \in DOMAIN shopLists
    THEN Ok([shopLists EXCEPT ![list_id].name = new_name])
    ELSE Err(NotFoundError("list"))

\* anylist_rs: delete_list(list_id): the list goes with its items.
SvcDeleteList(list_id, fault) ==
    IF IsSome(fault) THEN Err(Unwrap(fault))
    ELSE IF list_id \in DOMAIN shopLists
    THEN Ok([l \in DOMAIN shopLists \ {list_id} |-> shopLists[l]])
    ELSE Err(NotFoundError("list"))

\* What add_item_with_details hands to the Service's add_item_with_details.
add_item_with_details_args(list_id, name, quantity, note, category) ==
    [list_id |-> list_id, name |-> name, quantity |-> AsDeref(quantity),
     details |-> AsDeref(note), category |-> AsDeref(category)]

\* anylist_rs: add_item_with_details(list_id, name, quantity, details, category)
SvcAddItemWithDetails(sent, user_id, fault) ==
    IF IsSome(fault) THEN Err(Unwrap(fault))
    ELSE IF sent.list_id \in DOMAIN shopLists
    THEN Ok(RsListItemNew(nextId.item, sent.list_id, sent.name, sent.quantity,
                          sent.details, sent.category, user_id))
    ELSE Err(NotFoundError("list"))

\* anylist_rs: delete_item(list_id, item_id)
SvcDeleteItem(list_id, item_id, fault) ==
    IF IsSome(fault) THEN Err(Unwrap(fault))
    ELSE IF list_id \in DOMAIN shopLists /\ HasItem(shopLists[list_id].items, item_id)
    THEN Ok([shopLists EXCEPT ![list_id].items = Without(@, item_id)])
    ELSE Err(NotFoundError("item"))

\* anylist_rs: cross_off_item / uncheck_item (list_id, item_id): the item's
\* is_checked becomes `checked`, whatever it was.
SvcSetChecked(list_id, item_id, checked, fault) ==
    IF IsSome(fault) THEN Err(Unwrap(fault))
    ELSE IF list_id \in DOMAIN shopLists /\ HasItem(shopLists[list_id].items, item_id)
    THEN Ok([shopLists EXCEPT ![list_id].items =
                [i \in 1..Len(@) |->
                    IF @[i].id = item_id THEN [@[i] EXCEPT !.is_checked = checked]
                    ELSE @[i]]])
    ELSE Err(NotFoundError("item"))

\* anylist_rs: delete_all_crossed_off_items(list_id)
SvcDeleteAllCrossedOffItems(list_id, fault) ==
    IF IsSome(fault) THEN Err(Unwrap(fault))
    ELSE IF list_id \in DOMAIN shopLists
    THEN Ok([shopLists EXCEPT ![list_id].items = SelectSeq(@, LAMBDA x : ~x.is_checked)])
    ELSE Err(NotFoundError("list"))

\* Scale factors a caller may pass (f64), and the quantity the Service makes
\* of an ingredient's quantity under one: scaling is the Service's own rule,
\* kept here as the quantity marked with the factor.
ScaleFactors == {None, Some("2.0")}
ScaleQuantity(quantity, scale_factor) ==
    IF IsSome(quantity) /\ IsSome(scale_factor)
    THEN Some(Unwrap(quantity) \o " x " \o Unwrap(scale_factor))
    ELSE quantity

\* The items the Service makes of a recipe's ingredients, one per ingredient,
\* in order, under ids from first_id on.
ItemsOfRecipe(recipe, list_id, scale_factor, user_id, first_id) ==
    [i \in 1..Len(recipe.ingredients) |->
        RsListItemNew(first_id + i - 1, list_id, recipe.ingredients[i].name,
                      ScaleQuantity(recipe.ingredients[i].quantity, scale_factor),
                      recipe.ingredients[i].note, None, user_id)]

\* anylist_rs: add_recipe_to_list(recipe_id, list_id, scale_factor): the
\* items appended.
SvcAddRecipeToList(sent, user_id, fault) ==
    IF IsSome(fault) THEN Err(Unwrap(fault))
    ELSE IF sent.recipe_id \notin DOMAIN recipes THEN Err(NotFoundError("recipe"))
    ELSE IF sent.list_id \notin DOMAIN shopLists THEN Err(NotFoundError("list"))
    ELSE Ok(ItemsOfRecipe(recipes[sent.recipe_id], sent.list_id, sent.scale_factor,
                          user_id, nextId.item))

\* The meal plan is not part of the Service state kept here: the events of
\* a date range refer to no recipe, or to one of the recipes.
PlannedRecipes == {None} \cup {Some(r) : r \in DOMAIN recipes}

\* anylist_rs: add_meal_plan_ingredients_to_list(list_id, start_date,
\* end_date): the items appended, those of the recipes planned in the range.
SvcAddMealPlanIngredientsToList(sent, planned, user_id, fault) ==
    IF IsSome(fault) THEN Err(Unwrap(fault))
    ELSE IF sent.list_id \notin DOMAIN shopLists THEN Err(NotFoundError("list"))
    ELSE IF IsSome(planned)
    THEN Ok(ItemsOfRecipe(recipes[Unwrap(planned)], sent.list_id, None, user_id,
                          nextId.item))
    ELSE Ok(<<>>)

CreateList(h, name) ==
    /\ MainHandle(h)
    /\ \E fault \in Faults(Inner(h)) :
        LET svc == SvcCreateList(name, fault)
            result == IF svc.ok THEN Ok(ListFromRs(svc.value))
                      ELSE Err(to_napi_error(svc.error))
        IN /\ shopLists' = IF svc.ok THEN WithList(svc.value) ELSE shopLists
           /\ nextId' = IF svc.ok THEN [nextId EXCEPT !.list = @ + 1] ELSE nextId
           /\ last' = Invocation("create_list", "main", h, [name |-> name],
                                 OneCallWith("create_list", svc, [name |-> name]),
                                 None, result)
    /\ UNCHANGED <<handles, recipes, favLists, inflight>>

NativeCreateList(h, name) ==
    /\ NativeHandle(h)
    /\ \E fault \in Faults(Inner(h)) :
        LET svc == SvcCreateList(name, fault)
            result == IF svc.ok THEN Ok(NativeListFromRs(svc.value))
                      ELSE Err(native_error("create_list", svc.error))
        IN /\ shopLists' = IF svc.ok THEN WithList(svc.value) ELSE shopLists
           /\ nextId' = IF svc.ok THEN [nextId EXCEPT !.list = @ + 1] ELSE nextId
           /\ last' = Invocation("create_list", "native", h, [name |-> name],
                                 OneCallWith("create_list", svc, [name |-> name]),
                                 None, result)
    /\ UNCHANGED <<handles, recipes, favLists, inflight>>

GetListById(h, list_id) ==
    /\ MainHandle(h)
    /\ \E fault \in Faults(Inner(h)) :
        LET svc == SvcGetListById(list_id, fault)
            result == IF svc.ok THEN Ok(ListFromRs(svc.value))
                      ELSE Err(to_napi_error(svc.error))
        IN last' = Invocation("get_list_by_id", "main", h, [list_id |-> list_id],
                              OneCallWith("get_list_by_id", svc, [list_id |-> list_id]),
                              None, result)
    /\ UNCHANGED <<handles, recipes, favLists, shopLists, nextId, inflight>>

GetListByName(h, name) ==
    /\ MainHandle(h)
    /\ \E fault \in Faults(Inner(h)) :
        LET svc == SvcGetListByName(name, fault)
            result == IF svc.ok THEN Ok(ListFromRs(svc.value))
                      ELSE Err(to_napi_error(svc.error))
        IN last' = Invocation("get_list_by_name", "main", h, [name |-> name],
                              OneCallWith("get_list_by_name", svc, [name |-> name]),
                              None, result)
    /\ UNCHANGED <<handles, recipes, favLists, shopLists, nextId, inflight>>

\* A method of the full binding whose one Service call answers with the
\* shopping lists as it leaves them: `?` on the mapped error, then Ok(()).
ListsUpdate(h, op, args, sent, svc) ==
    /\ shopLists' = IF svc.ok THEN svc.value ELSE shopLists
    /\ last' = Invocation(op, "main", h, args, OneCallWith(op, svc, sent), None,
                          IF svc.ok THEN Ok("unit") ELSE Err(to_napi_error(svc.error)))

RenameList(h, list_id, new_name) ==
    /\ MainHandle(h)
    /\ \E fault \in Faults(Inner(h)) :
        LET args == [list_id |-> list_id, new_name |-> new_name]
        IN ListsUpdate(h, "rename_list", args, args,
                       SvcRenameList(list_id, new_name, fault))
    /\ UNCHANGED <<handles, recipes, favLists, nextId, inflight>>

DeleteList(h, list_id) ==
    /\ MainHandle(h)
    /\ \E fault \in Faults(Inner(h)) :
        LET args == [list_id |-> list_id]
        IN ListsUpdate(h, "delete_list", args, args, SvcDeleteList(list_id, fault))
    /\ UNCHANGED <<handles, recipes, favLists, nextId, inflight>>

AddItemWithDetails(h, list_id, name, quantity, note, category) ==
    /\ MainHandle(h)
    /\ \E fault \in Faults(Inner(h)) :
        LET sent == add_item_with_details_args(list_id, name, quantity, note, category)
            svc == SvcAddItemWithDetails(sent, RsUserId(Inner(h).tokens), fault)
            result == IF svc.ok THEN Ok(ListItemFromRs(svc.value))
                      ELSE Err(to_napi_error(svc.error))
        IN /\ shopLists' = IF svc.ok THEN WithItem(svc.value) ELSE shopLists
           /\ nextId' = IF svc.ok THEN [nextId EXCEPT !.item = @ + 1] ELSE nextId
           /\ last' = Invocation("add_item_with_details", "main", h,
                                 [list_id |-> list_id, name |-> name,
                                  quantity |-> quantity, note |-> note,
                                  category |-> category],
                                 OneCallWith("add_item_with_details", svc, sent),
                                 None, result)
    /\ UNCHANGED <<handles, recipes, favLists, inflight>>

NativeAddItemWithDetails(h, list_id, name, quantity, details, category) ==
    /\ NativeHandle(h)
    /\ \E fault \in Faults(Inner(h)) :
        LET sent == add_item_with_details_args(list_id, name, quantity, details, category)
            svc == SvcAddItemWithDetails(sent, RsUserId(Inner(h).tokens), fault)
            result == IF svc.ok THEN Ok(NativeListItemFromRs(svc.value))
                      ELSE Err(native_error("add_item_with_details", svc.error))
        IN /\ shopLists' = IF svc.ok THEN WithItem(svc.value) ELSE shopLists
           /\ nextId' = IF svc.ok THEN [nextId EXCEPT !.item = @ + 1] ELSE nextId
           /\ last' = Invocation("add_item_with_details", "native", h,
                                 [list_id |-> list_id, name |-> name,
                                  quantity |-> quantity, details |-> details,
                                  category |-> category],
                                 OneCallWith("add_item_with_details", svc, sent),
                                 None, result)
    /\ UNCHANGED <<handles, recipes, favLists, inflight>>

DeleteItem(h, list_id, item_id) ==
    /\ MainHandle(h)
    /\ \E fault \in Faults(Inner(h)) :
        LET args == [list_id |-> list_id, item_id |-> item_id]
        IN ListsUpdate(h, "delete_item", args, args,
                       SvcDeleteItem(list_id, item_id, fault))
    /\ UNCHANGED <<handles, recipes, favLists, nextId, inflight>>

CrossOffItem(h, list_id, item_id) ==
    /\ MainHandle(h)
    /\ \E fault \in Faults(Inner(h)) :
        LET args == [list_id |-> list_id, item_id |-> item_id]
        IN ListsUpdate(h, "cross_off_item", args, args,
                       SvcSetChecked(list_id, item_id, TRUE, fault))
    /\ UNCHANGED <<handles, recipes, favLists, nextId, inflight>>

UncheckItem(h, list_id, item_id) ==
    /\ MainHandle(h)
    /\ \E fault \in Faults(Inner(h)) :
        LET args == [list_id |-> list_id, item_id |-> item_id]
        IN ListsUpdate(h, "uncheck_item", args, args,
                       SvcSetChecked(list_id, item_id, FALSE, fault))
    /\ UNCHANGED <<handles, recipes, favLists, nextId, inflight>>

DeleteAllCrossedOffItems(h, list_id) ==
    /\ MainHandle(h)
    /\ \E fault \in Faults(Inner(h)) :
        LET args == [list_id |-> list_id]
        IN ListsUpdate(h, "delete_all_crossed_off_items", args, args,
                       SvcDeleteAllCrossedOffItems(list_id, fault))
    /\ UNCHANGED <<handles, recipes, favLists, nextId, inflight>>

\* A method of the full binding whose one Service call appends the items it
\* answers with to a list: `?` on the mapped error, then Ok(()).
ItemsAppended(h, op, args, sent, svc) ==
    /\ shopLists' = IF svc.ok THEN WithItems(sent.list_id, svc.value) ELSE shopLists
    /\ nextId' = IF svc.ok THEN [nextId EXCEPT !.item = @ + Len(svc.value)] ELSE nextId
    /\ last' = Invocation(op, "main", h, args, OneCallWith(op, svc, sent), None,
                          IF svc.ok THEN Ok("unit") ELSE Err(to_napi_error(svc.error)))

AddRecipeToList(h, recipe_id, list_id, scale_factor) ==
    /\ MainHandle(h)
    /\ \E fault \in Faults(Inner(h)) :
        LET args == [recipe_id |-> recipe_id, list_id |-> list_id,
                     scale_factor |-> scale_factor]
        IN ItemsAppended(h, "add_recipe_to_list", args, args,
                         SvcAddRecipeToList(args, RsUserId(Inner(h).tokens), fault))
    /\ UNCHANGED <<handles, recipes, favLists, inflight>>

AddMealPlanIngredientsToList(h, list_id, start_date, end_date) ==
    /\ MainHandle(h)
    /\ \E fault \in Faults(Inner(h)), planned \in PlannedRecipes :
        LET args == [list_id |-> list_id, start_date |-> start_date,
                     end_date |-> end_date]
        IN ItemsAppended(h, "add_meal_plan_ingredients_to_list", args, args,
                         SvcAddMealPlanIngredientsToList(args, planned,
                             RsUserId(Inner(h).tokens), fault))
    /\ UNCHANGED <<handles, recipes, favLists, inflight>>

(***************************************************************************)
(* Reads of the recipes and of the favourites, add_favourite, and the      *)
(* native binding's accessors.                                             *)
(***************************************************************************)
\* The ids of the recipes, in the order they were created.
RecipeOrder ==
    SelectSeq([n \in 1..(nextId.recipe - 1) |-> n], LAMBDA r : r \in DOMAIN recipes)

\* anylist_rs: get_recipes()
SvcGetRecipes(fault) ==
    IF IsSome(fault) THEN Err(Unwrap(fault))
    ELSE Ok([i \in 1..Len(RecipeOrder) |-> recipes[RecipeOrder[i]]])

\* anylist_rs: get_recipe_by_name(name): the first recipe of that name.
SvcGetRecipeByName(name, fault) ==
    LET hits == {i \in 1..Len(RecipeOrder) : recipes[RecipeOrder[i]].name = name}
    IN IF IsSome(fault) THEN Err(Unwrap(fault))
       ELSE IF hits # {}
       THEN Ok(recipes[RecipeOrder[CHOOSE i \in hits : \A j \in hits : i <= j]])
       ELSE Err(NotFoundError("recipe"))

\* The account's favourites list that add_favourite adds to; no method of
\* the facade creates or deletes a favourites list.
DefaultFavouritesList == CHOOSE l \in FavListIds : TRUE

\* anylist_rs: get_favourites(): every favourite of every favourites list.
SvcGetFavourites(fault) ==
    IF IsSome(fault) THEN Err(Unwrap(fault))
    ELSE Ok(favLists[DefaultFavouritesList].items)

\* anylist_rs: get_favourites_lists()
SvcGetFavouritesLists(fault) ==
    IF IsSome(fault) THEN Err(Unwrap(fault))
    ELSE Ok(<<favLists[DefaultFavouritesList]>>)

\* anylist_rs: add_favourite(name, category): a favourite of the default list.
SvcAddFavourite(name, category, fault) ==
    SvcAddFavouriteToList(DefaultFavouritesList, name, category, fault)

RecipeNames == {"Pancakes", "Waffles"}

GetRecipes(h) ==
    /\ MainHandle(h)
    /\ \E fault \in Faults(Inner(h)) :
        LET svc == SvcGetRecipes(fault)
            result == IF svc.ok
                      THEN Ok([i \in 1..Len(svc.value) |-> RecipeFromRs(svc.value[i])])
                      ELSE Err(to_napi_error(svc.error))
        IN last' = Invocation("get_recipes", "main", h, <<>>,
                              OneCallWith("get_recipes", svc, <<>>), None, result)
    /\ UNCHANGED <<handles, recipes, favLists, shopLists, nextId, inflight>>

GetRecipeByName(h, name) ==
    /\ MainHandle(h)
    /\ \E fault \in Faults(Inner(h)) :
        LET svc == SvcGetRecipeByName(name, fault)
            result == IF svc.ok THEN Ok(RecipeFromRs(svc.value))
                      ELSE Err(to_napi_error(svc.error))
        IN last' = Invocation("get_recipe_by_name", "main", h, [name |-> name],
                              OneCallWith("get_recipe_by_name", svc, [name |-> name]),
                              None, result)
    /\ UNCHANGED <<handles, recipes, favLists, shopLists, nextId, inflight>>

GetFavourites(h) ==
    /\ MainHandle(h)
    /\ \E fault \in Faults(Inner(h)) :
        LET svc == SvcGetFavourites(fault)
            result == IF svc.ok
                      THEN Ok([i \in 1..Len(svc.value) |-> FavouriteItemFromRs(svc.value[i])])
                      ELSE Err(to_napi_error(svc.error))
        IN last' = Invocation("get_favourites", "main", h, <<>>,
                              OneCallWith("get_favourites", svc, <<>>), None, result)
    /\ UNCHANGED <<handles, recipes, favLists, shopLists, nextId, inflight>>

GetFavouritesLists(h) ==
    /\ MainHandle(h)
    /\ \E fault \in Faults(Inner(h)) :
        LET svc == SvcGetFavouritesLists(fault)
            result == IF svc.ok
                      THEN Ok([i \in 1..Len(svc.value) |-> FavouritesListFromRs(svc.value[i])])
                      ELSE Err(to_napi_error(svc.error))
        IN last' = Invocation("get_favourites_lists", "main", h, <<>>,
                              OneCallWith("get_favourites_lists", svc, <<>>), None, result)
    /\ UNCHANGED <<handles, recipes, favLists, shopLists, nextId, inflight>>

AddFavourite(h, name, category) ==
    /\ MainHandle(h)
    /\ \E fault \in Faults(Inner(h)) :
        LET sent == [name |-> name, category |-> AsDeref(category)]
            svc == SvcAddFavourite(sent.name, sent.category, fault)
            result == IF svc.ok THEN Ok(FavouriteItemFromRs(svc.value))
                      ELSE Err(to_napi_error(svc.error))
        IN /\ favLists' = IF svc.ok
                          THEN [favLists EXCEPT ![svc.value.list_id].items =
                                    Append(@, svc.value)]
                          ELSE favLists
           /\ nextId' = IF svc.ok THEN [nextId EXCEPT !.fav = @ + 1] ELSE nextId
           /\ last' = Invocation("add_favourite", "main", h,
                                 [name |-> name, category |-> category],
                                 OneCallWith("add_favourite", svc, sent), None, result)
    /\ UNCHANGED <<handles, recipes, shopLists, inflight>>

\* anylist_rs: client_identifier(): the identifier the session was given
\* when it was built.
SvcClientIdentifier(session) == "client-" \o RsUserId(session.built)

\* A synchronous accessor of the native binding: no Result, no await.
NativeAccessor(h, op, value) ==
    /\ NativeHandle(h)
    /\ last' = Invocation(op, "native", h, <<>>, <<Call(op, FALSE, Ok(value))>>,
                          None, Ok(value))
    /\ UNCHANGED <<handles, recipes, favLists, shopLists, nextId, inflight>>

NativeUserId(h) == NativeAccessor(h, "user_id", RsUserId(Inner(h).tokens))

NativeIsPremiumUser(h) ==
    NativeAccessor(h, "is_premium_user", RsIsPremiumUser(Inner(h).tokens))

NativeClientIdentifier(h) ==
    NativeAccessor(h, "client_identifier", SvcClientIdentifier(Inner(h)))

(***************************************************************************)
(* Categories, stores, store filters, meal plan events, iCalendar, recipe  *)
(* collections and photos.  The Service's state of these is not kept       *)
(* here (other devices of the account change it too): the Service answers  *)
(* each call with any of the answers it can give, and the facade converts  *)
(* the answer it gets.                                                     *)
(***************************************************************************)
\* impl From<&RsCategory> for Category
CategoryFromRs(category) ==
    [id |-> category.id,
     name |-> category.name,
     icon |-> MapToString(category.icon),
     sort_index |-> category.sort_index]

\* impl From<&RsStore> for Store
StoreFromRs(store) ==
    [id |-> store.id, name |-> store.name, sort_index |-> store.sort_index]

\* impl From<&RsStoreFilter> for StoreFilter
StoreFilterFromRs(filter) ==
    [id |-> filter.id, name |-> filter.name,
     store_ids |-> [i \in 1..Len(filter.store_ids) |-> filter.store_ids[i]]]

\* impl From<&RsMealPlanEvent> for MealPlanEvent
MealPlanEventFromRs(event) ==
    [id |-> event.id,
     date |-> event.date,
     title |-> MapToString(event.title),
     recipe_id |-> MapToString(event.recipe_id),
     label_id |-> MapToString(event.label_id),
     details |-> MapToString(event.details)]

\* impl From<&RsICalendarInfo> for ICalendarInfo
ICalendarInfoFromRs(info) ==
    [enabled |-> info.enabled,
     url |-> MapToString(info.url),
     token |-> MapToString(info.token)]

\* impl From<&RsRecipeCollection> for RecipeCollection
RecipeCollectionFromRs(collection) ==
    [id |-> collection.id, name |-> collection.name,
     recipe_ids |-> [i \in 1..Len(collection.recipe_ids) |-> collection.recipe_ids[i]]]

\* Records the Service may answer with: each optional is absent in one, an
\* empty string in another.
RsCategories ==
    {[id |-> "c1", name |-> "Dairy", icon |-> i, sort_index |-> 0] :
        i \in {None, Some(""), Some("milk")}}
RsStores == {[id |-> "st1", name |-> "Corner shop", sort_index |-> 1]}
RsStoreFilters ==
    {[id |-> "sf1", name |-> "Nearby", store_ids |-> ids] : ids \in {<<>>, <<"st1">>}}
RsMealPlanEvents ==
    {[id |-> "e1", date |-> "2024-01-01", title |-> t, recipe_id |-> r,
      label_id |-> None, details |-> d] :
        t \in {None, Some("")}, r \in {None, Some("r1")}, d \in {None, Some("")}}
RsICalendarInfos ==
    {[enabled |-> TRUE, url |-> u, token |-> k] :
        u \in {None, Some("https://ical")}, k \in {None, Some("")}}
RsRecipeCollections ==
    {[id |-> "rc1", name |-> "Breakfast", recipe_ids |-> ids] : ids \in {<<>>, <<"r1">>}}

\* What the Service answers when it turns a request down.
Refused == Err(NotFoundError("entry"))

\* The outcome of a call: the fault, or else the Service's answer.
Answer(answer, fault) == IF IsSome(fault) THEN Err(Unwrap(fault)) ELSE answer

\* A method of the full binding that awaits one Service call and changes
\* nothing of the Service state kept here; `fetched` keeps the answer.
Answered(h, op, args, sent, svc, result) ==
    /\ last' = Invocation(op, "main", h, args, OneCallWith(op, svc, sent),
                          IF svc.ok THEN Some(svc.value) ELSE None, result)
    /\ UNCHANGED <<handles, recipes, favLists, shopLists, nextId, inflight>>

\* `?` on the mapped error, then Ok(()).
UnitResult(svc) == IF svc.ok THEN Ok("unit") ELSE Err(to_napi_error(svc.error))

UploadPhoto(h, data, filename, answer) ==
    /\ MainHandle(h)
    /\ \E fault \in Faults(Inner(h)) :
        LET args == [data |-> data, filename |-> filename]
            svc == Answer(answer, fault)
        IN Answered(h, "upload_photo", args, args, svc, MapErrMain(svc))

CreateCategory(h, list_id, category_group_id, name, answer) ==
    /\ MainHandle(h)
    /\ \E fault \in Faults(Inner(h)) :
        LET args == [list_id |-> list_id, category_group_id |-> category_group_id,
                     name |-> name]
            svc == Answer(answer, fault)
            result == IF svc.ok THEN Ok(CategoryFromRs(svc.value))
                      ELSE Err(to_napi_error(svc.error))
        IN Answered(h, "create_category", args, args, svc, result)

DeleteCategory(h, list_id, category_id, answer) ==
    /\ MainHandle(h)
    /\ \E fault \in Faults(Inner(h)) :
        LET args == [list_id |-> list_id, category_id |-> category_id]
            svc == Answer(answer, fault)
        IN Answered(h, "delete_category", args, args, svc, UnitResult(svc))

RenameCategory(h, list_id, category_group_id, category_id, new_name, answer) ==
    /\ MainHandle(h)
    /\ \E fault \in Faults(Inner(h)) :
        LET args == [list_id |-> list_id, category_group_id |-> category_group_id,
                     category_id |-> category_id, new_name |-> new_name]
            svc == Answer(answer, fault)
        IN Answered(h, "rename_category", args, args, svc, UnitResult(svc))

GetStoresForList(h, list_id, answer) ==
    /\ MainHandle(h)
    /\ \E fault \in Faults(Inner(h)) :
        LET args == [list_id |-> list_id]
            svc == Answer(answer, fault)
            result == IF svc.ok
                      THEN Ok([i \in 1..Len(svc.value) |-> StoreFromRs(svc.value[i])])
                      ELSE Err(to_napi_error(svc.error))
        IN Answered(h, "get_stores_for_list", args, args, svc, result)

CreateStore(h, list_id, name, answer) ==
    /\ MainHandle(h)
    /\ \E fault \in Faults(Inner(h)) :
        LET args == [list_id |-> list_id, name |-> name]
            svc == Answer(answer, fault)
            result == IF svc.ok THEN Ok(StoreFromRs(svc.value))
                      ELSE Err(to_napi_error(svc.error))
        IN Answered(h, "create_store", args, args, svc, result)

UpdateStore(h, list_id, store_id, new_name, answer) ==
    /\ MainHandle(h)
    /\ \E fault \in Faults(Inner(h)) :
        LET args == [list_id |-> list_id, store_id |-> store_id, new_name |-> new_name]
            svc == Answer(answer, fault)
        IN Answered(h, "update_store", args, args, svc, UnitResult(svc))

GetStoreFiltersForList(h, list_id, answer) ==
    /\ MainHandle(h)
    /\ \E fault \in Faults(Inner(h)) :
        LET args == [list_id |-> list_id]
            svc == Answer(answer, fault)
            result == IF svc.ok
                      THEN Ok([i \in 1..Len(svc.value) |-> StoreFilterFromRs(svc.value[i])])
                      ELSE Err(to_napi_error(svc.error))
        IN Answered(h, "get_store_filters_for_list", args, args, svc, result)

DeleteStore(h, list_id, store_id, answer) ==
    /\ MainHandle(h)
    /\ \E fault \in Faults(Inner(h)) :
        LET args == [list_id |-> list_id, store_id |-> store_id]
            svc == Answer(answer, fault)
        IN Answered(h, "delete_store", args, args, svc, UnitResult(svc))

GetMealPlanEvents(h, start_date, end_date, answer) ==
    /\ MainHandle(h)
    /\ \E fault \in Faults(Inner(h)) :
        LET args == [start_date |-> start_date, end_date |-> end_date]
            svc == Answer(answer, fault)
            result == IF svc.ok
                      THEN Ok([i \in 1..Len(svc.value) |-> MealPlanEventFromRs(svc.value[i])])
                      ELSE Err(to_napi_error(svc.error))
        IN Answered(h, "get_meal_plan_events", args, args, svc, result)

CreateMealPlanEvent(h, calendar_id, date, recipe_id, title, label_id, answer) ==
    /\ MainHandle(h)
    /\ \E fault \in Faults(Inner(h)) :
        LET args == [calendar_id |-> calendar_id, date |-> date, recipe_id |-> recipe_id,
                     title |-> title, label_id |-> label_id]
            sent == [calendar_id |-> calendar_id, date |-> date,
                     recipe_id |-> AsDeref(recipe_id), title |-> AsDeref(title),
                     label_id |-> AsDeref(label_id)]
            svc == Answer(answer, fault)
            result == IF svc.ok THEN Ok(MealPlanEventFromRs(svc.value))
                      ELSE Err(to_napi_error(svc.error))
        IN Answered(h, "create_meal_plan_event", args, sent, svc, result)

UpdateMealPlanEvent(h, calendar_id, event_id, date, recipe_id, title, label_id, answer) ==
    /\ MainHandle(h)
    /\ \E fault \in Faults(Inner(h)) :
        LET args == [calendar_id |-> calendar_id, event_id |-> event_id, date |-> date,
                     recipe_id |-> recipe_id, title |-> title, label_id |-> label_id]
            sent == [calendar_id |-> calendar_id, event_id |-> event_id, date |-> date,
                     recipe_id |-> AsDeref(recipe_id), title |-> AsDeref(title),
                     label_id |-> AsDeref(label_id)]
            svc == Answer(answer, fault)
        IN Answered(h, "update_meal_plan_event", args, sent, svc, UnitResult(svc))

DeleteMealPlanEvent(h, calendar_id, event_id, answer) ==
    /\ MainHandle(h)
    /\ \E fault \in Faults(Inner(h)) :
        LET args == [calendar_id |-> calendar_id, event_id |-> event_id]
            svc == Answer(answer, fault)
        IN Answered(h, "delete_meal_plan_event", args, args, svc, UnitResult(svc))

EnableIcalendar(h, answer) ==
    /\ MainHandle(h)
    /\ \E fault \in Faults(Inner(h)) :
        LET svc == Answer(answer, fault)
            result == IF svc.ok THEN Ok(ICalendarInfoFromRs(svc.value))
                      ELSE Err(to_napi_error(svc.error))
        IN Answered(h, "enable_icalendar", <<>>, <<>>, svc, result)

DisableIcalendar(h, answer) ==
    /\ MainHandle(h)
    /\ \E fault \in Faults(Inner(h)) :
        LET svc == Answer(answer, fault)
        IN Answered(h, "disable_icalendar", <<>>, <<>>, svc, UnitResult(svc))

\* get_icalendar_url: the Service's Option<String> is returned as it is.
GetIcalendarUrl(h, answer) ==
    /\ MainHandle(h)
    /\ \E fault \in Faults(Inner(h)) :
        LET svc == Answer(answer, fault)
        IN Answered(h, "get_icalendar_url", <<>>, <<>>, svc, MapErrMain(svc))

GetRecipeCollections(h, answer) ==
    /\ MainHandle(h)
    /\ \E fault \in Faults(Inner(h)) :
        LET svc == Answer(answer, fault)
            result == IF svc.ok
                      THEN Ok([i \in 1..Len(svc.value) |->
                                  RecipeCollectionFromRs(svc.value[i])])
                      ELSE Err(to_napi_error(svc.error))
        IN Answered(h, "get_recipe_collections", <<>>, <<>>, svc, result)

CreateRecipeCollection(h, name, answer) ==
    /\ MainHandle(h)
    /\ \E fault \in Faults(Inner(h)) :
        LET args == [name |-> name]
            svc == Answer(answer, fault)
            result == IF svc.ok THEN Ok(RecipeCollectionFromRs(svc.value))
                      ELSE Err(to_napi_error(svc.error))
        IN Answered(h, "create_recipe_collection", args, args, svc, result)

DeleteRecipeCollection(h, collection_id, answer) ==
    /\ MainHandle(h)
    /\ \E fault \in Faults(Inner(h)) :
        LET args == [collection_id |-> collection_id]
            svc == Answer(answer, fault)
        IN Answered(h, "delete_recipe_collection", args, args, svc, UnitResult(svc))

AddRecipeToCollection(h, collection_id, recipe_id, answer) ==
    /\ MainHandle(h)
    /\ \E fault \in Faults(Inner(h)) :
        LET args == [collection_id |-> collection_id, recipe_id |-> recipe_id]
            svc == Answer(answer, fault)
        IN Answered(h, "add_recipe_to_collection", args, args, svc, UnitResult(svc))

RemoveRecipeFromCollection(h, collection_id, recipe_id, answer) ==
    /\ MainHandle(h)
    /\ \E fault \in Faults(Inner(h)) :
        LET args == [collection_id |-> collection_id, recipe_id |-> recipe_id]
            svc == Answer(answer, fault)
        IN Answered(h, "remove_recipe_from_collection", args, args, svc, UnitResult(svc))

(***************************************************************************)
(* The specification.                                                      *)
(***************************************************************************)
Init ==
    /\ handles = [h \in HandleIds |-> NoHandle]
    /\ recipes = <<>>
    /\ favLists = [l \in FavListIds |->
                     [id |-> l, name |-> "Starter", items |-> <<>>,
                      shopping_list_id |-> Some("S1")]]
    /\ shopLists = [l \in ShopListIds |-> [id |-> l, name |-> "Groceries", items |-> <<>>]]
    /\ nextId = [recipe |-> 1, fav |-> 1, item |-> 1, list |-> Cardinality(ShopListIds) + 1]
    /\ inflight = [t \in Tasks |-> Idle]
    /\ last = NoInvocation

\* The exploration stops at the bounds: a call that could hand out an id
\* beyond them is not made at all.  The methods themselves have no such limit.
RoomForRecipe == nextId.recipe <= MaxRecipes
RoomForFavourite == nextId.fav <= MaxFavItems
RoomForList == nextId.list <= MaxLists
RoomForItems(n) == nextId.item + n <= MaxShopItems + 1
\* The number of items the ingredients of a recipe become on a list.
IngredientsOf(recipe_id) ==
    IF recipe_id \in DOMAIN recipes THEN Len(recipes[recipe_id].ingredients) ELSE 0
\* Room for the ingredients of whichever recipe the meal plan holds.
RoomForPlanned == \A r \in DOMAIN recipes : RoomForItems(IngredientsOf(r))

\* The session lifecycle under both bindings, with one operation on the
\* session's data (get_lists) to show what a handle is good for.
SessionNext ==
    \/ \E password \in Passwords : Login(password)
    \/ \E password \in Passwords : NativeLogin(password)
    \/ \E tokens \in TokenInputs : FromTokens(tokens)
    \/ \E tokens \in TokenInputs : NativeFromTokens(tokens)
    \/ \E h \in HandleIds : GetTokens(h)
    \/ \E h \in HandleIds : ExportTokens(h)
    \/ \E h \in HandleIds : Refresh(h)
    \/ \E h \in HandleIds : Drop(h)
    \/ \E h \in HandleIds : GetLists(h)
    \/ \E h \in HandleIds : NativeGetLists(h)
    \/ \E h \in HandleIds, l \in ShopListIds : RoomForItems(1) /\ AddItem(h, l, "Milk")
    \/ \E h \in HandleIds, l \in ShopListIds : RoomForItems(1) /\ NativeAddItem(h, l, "Milk")

SpecSession == Init /\ [][SessionNext]_vars

\* Recipes, with up to MaxTasks update_recipe calls suspended at a time.
RecipeNext ==
    \/ \E password \in Passwords : Login(password)
    \/ \E h \in HandleIds, options \in RecipeOptions :
            RoomForRecipe /\ CreateRecipe(h, options)
    \/ \E h \in HandleIds, id \in RecipeIds : GetRecipeById(h, id)
    \/ \E h \in HandleIds, id \in RecipeIds : DeleteRecipe(h, id)
    \/ \E t \in Tasks, h \in HandleIds, id \in RecipeIds, options \in RecipeOptions :
            UpdateRecipeFetch(t, h, id, options)
    \/ \E t \in Tasks : UpdateRecipeSave(t)

SpecRecipes == Init /\ [][RecipeNext]_vars

\* Favourites and shopping lists.
FavouritesNext ==
    \/ \E password \in Passwords : Login(password)
    \/ \E h \in HandleIds : GetLists(h)
    \/ \E h \in HandleIds, l \in ShopListIds : RoomForItems(1) /\ AddItem(h, l, "Milk")
    \/ \E h \in HandleIds, l \in ListIdInputs : GetFavouritesForList(h, l)
    \/ \E h \in HandleIds, l \in ListIdInputs, c \in Categories :
            RoomForFavourite /\ AddFavouriteToList(h, l, "Eggs", c)
    \/ \E h \in HandleIds, l \in ListIdInputs, f \in FavItemIds : RemoveFavourite(h, l, f)
    \/ \E t \in Tasks, h \in HandleIds, l \in ListIdInputs, f \in FavItemIds,
          s \in ShopListIds : AddFavouriteToShoppingListFetch(t, h, l, f, s)
    \/ \E t \in Tasks : RoomForItems(1) /\ AddFavouriteToShoppingListAdd(t)

SpecFavourites == Init /\ [][FavouritesNext]_vars

\* The items of a shopping list.
ItemsNext ==
    \/ \E password \in Passwords : Login(password)
    \/ \E h \in HandleIds : GetLists(h)
    \/ \E h \in HandleIds, l \in ShopListIds : RoomForItems(1) /\ AddItem(h, l, "Milk")
    \/ \E h \in HandleIds, l \in ListIdInputs, i \in ItemIds, q \in Quantities,
          n \in Notes, c \in Categories : UpdateItem(h, l, i, "Oat milk", q, n, c)
    \/ \E h \in HandleIds, l \in ListIdInputs, ids \in ItemIdLists :
            BulkDeleteItems(h, l, ids)

SpecItems == Init /\ [][ItemsNext]_vars

\* The methods that return records with optional fields.
ConversionsNext ==
    \/ \E password \in Passwords : Login(password)
    \/ \E password \in Passwords : NativeLogin(password)
    \/ \E h \in HandleIds, options \in RecipeOptions :
            RoomForRecipe /\ CreateRecipe(h, options)
    \/ \E h \in HandleIds, id \in RecipeIds : GetRecipeById(h, id)
    \/ \E h \in HandleIds : GetLists(h)
    \/ \E h \in HandleIds : NativeGetLists(h)
    \/ \E h \in HandleIds, l \in ShopListIds : RoomForItems(1) /\ AddItem(h, l, "Milk")
    \/ \E h \in HandleIds, l \in ShopListIds : RoomForItems(1) /\ NativeAddItem(h, l, "Milk")
    \/ \E h \in HandleIds, l \in ShopListIds, i \in ItemIds, q \in Quantities,
          c \in Categories : UpdateItem(h, l, i, "Oat milk", q, None, c)
    \/ \E h \in HandleIds, l \in ShopListIds : GetFavouritesForList(h, l)
    \/ \E h \in HandleIds, l \in FavListIds, c \in Categories :
            RoomForFavourite /\ AddFavouriteToList(h, l, "Eggs", c)
    \/ \E h \in HandleIds, category \in RsCategories :
            CreateCategory(h, "S1", "g1", "Dairy", Ok(category))
    \/ \E h \in HandleIds, event \in RsMealPlanEvents :
            GetMealPlanEvents(h, "2024-01-01", "2024-01-02", Ok(<<event>>))
    \/ \E h \in HandleIds, info \in RsICalendarInfos : EnableIcalendar(h, Ok(info))

SpecConversions == Init /\ [][ConversionsNext]_vars

\* The lifecycle of shopping lists and of their items, under both bindings.
ListsNext ==
    \/ \E password \in Passwords : Login(password)
    \/ \E password \in Passwords : NativeLogin(password)
    \/ \E h \in HandleIds, name \in ListNames : RoomForList /\ CreateList(h, name)
    \/ \E h \in HandleIds, name \in ListNames : RoomForList /\ NativeCreateList(h, name)
    \/ \E h \in HandleIds : GetLists(h)
    \/ \E h \in HandleIds : NativeGetLists(h)
    \/ \E h \in HandleIds, l \in ListIdArgs : GetListById(h, l)
    \/ \E h \in HandleIds, name \in ListNames : GetListByName(h, name)
    \/ \E h \in HandleIds, l \in ListIdArgs, name \in ListNames : RenameList(h, l, name)
    \/ \E h \in HandleIds, l \in ListIdArgs : DeleteList(h, l)
    \/ \E h \in HandleIds, l \in ListIdArgs, q \in Quantities, n \in Notes,
          c \in Categories : RoomForItems(1) /\ AddItemWithDetails(h, l, "Milk", q, n, c)
    \/ \E h \in HandleIds, l \in ListIdArgs, q \in Quantities, n \in Notes,
          c \in Categories : RoomForItems(1) /\ NativeAddItemWithDetails(h, l, "Milk", q, n, c)
    \/ \E h \in HandleIds, l \in ListIdArgs, i \in ItemIds : DeleteItem(h, l, i)
    \/ \E h \in HandleIds, l \in ListIdArgs, i \in ItemIds : CrossOffItem(h, l, i)
    \/ \E h \in HandleIds, l \in ListIdArgs, i \in ItemIds : UncheckItem(h, l, i)
    \/ \E h \in HandleIds, l \in ListIdArgs : DeleteAllCrossedOffItems(h, l)
    \/ \E h \in HandleIds : RoomForRecipe /\ CreateRecipe(h, OptionsRated)
    \/ \E h \in HandleIds, r \in RecipeIds, l \in ListIdArgs, f \in ScaleFactors :
            RoomForItems(IngredientsOf(r)) /\ AddRecipeToList(h, r, l, f)
    \/ \E h \in HandleIds, l \in ListIdArgs :
            RoomForPlanned /\ AddMealPlanIngredientsToList(h, l, "2024-01-01", "2024-01-02")

SpecLists == Init /\ [][ListsNext]_vars

\* Every method of both bindings.  Callers pass one value per argument
\* where the value does not decide which Service calls are made, and one
\* two-await method is suspended at a time; the specifications above pass
\* the other values and suspend several.
Next ==
    \/ \E password \in Passwords : Login(password)
    \/ \E password \in Passwords : NativeLogin(password)
    \/ FromTokens(StaleSavedTokens)
    \/ NativeFromTokens(StaleSavedTokens)
    \/ \E h \in HandleIds : GetTokens(h)
    \/ \E h \in HandleIds : ExportTokens(h)
    \/ \E h \in HandleIds : NativeUserId(h)
    \/ \E h \in HandleIds : NativeIsPremiumUser(h)
    \/ \E h \in HandleIds : NativeClientIdentifier(h)
    \/ \E h \in HandleIds : GetLists(h)
    \/ \E h \in HandleIds : NativeGetLists(h)
    \/ \E h \in HandleIds : RoomForList /\ CreateList(h, "Party")
    \/ \E h \in HandleIds : RoomForList /\ NativeCreateList(h, "Party")
    \/ \E h \in HandleIds, l \in ShopListIds : GetListById(h, l)
    \/ \E h \in HandleIds : GetListByName(h, "Groceries")
    \/ \E h \in HandleIds, l \in ShopListIds : RenameList(h, l, "Groceries")
    \/ \E h \in HandleIds : DeleteList(h, ListId(MaxLists))
    \/ \E h \in HandleIds, l \in ShopListIds : RoomForItems(1) /\ AddItem(h, l, "Milk")
    \/ \E h \in HandleIds, l \in ShopListIds : RoomForItems(1) /\ NativeAddItem(h, l, "Milk")
    \/ \E h \in HandleIds, l \in ShopListIds :
            RoomForItems(1) /\ AddItemWithDetails(h, l, "Milk", None, None, None)
    \/ \E h \in HandleIds, l \in ShopListIds :
            RoomForItems(1) /\ NativeAddItemWithDetails(h, l, "Milk", None, None, None)
    \/ \E h \in HandleIds, l \in ShopListIds :
            UpdateItem(h, l, 1, "Milk", None, None, None)
    \/ \E h \in HandleIds, l \in ShopListIds : DeleteItem(h, l, 1)
    \/ \E h \in HandleIds, l \in ShopListIds : CrossOffItem(h, l, 1)
    \/ \E h \in HandleIds, l \in ShopListIds : UncheckItem(h, l, 1)
    \/ \E h \in HandleIds, l \in ShopListIds : BulkDeleteItems(h, l, <<1>>)
    \/ \E h \in HandleIds, l \in ShopListIds : DeleteAllCrossedOffItems(h, l)
    \/ \E h \in HandleIds : GetRecipes(h)
    \/ \E h \in HandleIds, id \in RecipeIds : GetRecipeById(h, id)
    \/ \E h \in HandleIds, name \in RecipeNames : GetRecipeByName(h, name)
    \/ \E h \in HandleIds : RoomForRecipe /\ CreateRecipe(h, OptionsRated)
    \/ \E h \in HandleIds, id \in RecipeIds, l \in ShopListIds :
            RoomForItems(IngredientsOf(id)) /\ AddRecipeToList(h, id, l, None)
    \/ \E h \in HandleIds, id \in RecipeIds : UpdateRecipeFetch(1, h, id, OptionsRated)
    \/ UpdateRecipeSave(1)
    \/ \E h \in HandleIds, id \in RecipeIds : DeleteRecipe(h, id)
    \/ \E h \in HandleIds : UploadPhoto(h, <<255, 216>>, "p.jpg", Ok("photo-1"))
    \/ \E h \in HandleIds :
            CreateCategory(h, "S1", "g1", "Dairy",
                Ok([id |-> "c1", name |-> "Dairy", icon |-> None, sort_index |-> 0]))
    \/ \E h \in HandleIds : DeleteCategory(h, "S1", "c1", Ok("unit"))
    \/ \E h \in HandleIds : RenameCategory(h, "S1", "g1", "c1", "Cheese", Refused)
    \/ \E h \in HandleIds, stores \in RsStores : GetStoresForList(h, "S1", Ok(<<stores>>))
    \/ \E h \in HandleIds, store \in RsStores : CreateStore(h, "S1", store.name, Ok(store))
    \/ \E h \in HandleIds : UpdateStore(h, "S1", "st1", "Market", Ok("unit"))
    \/ \E h \in HandleIds : GetStoreFiltersForList(h, "S1", Ok(<<>>))
    \/ \E h \in HandleIds : DeleteStore(h, "S1", "st1", Refused)
    \/ \E h \in HandleIds : GetFavourites(h)
    \/ \E h \in HandleIds : GetFavouritesLists(h)
    \/ \E h \in HandleIds, l \in ListIdInputs : GetFavouritesForList(h, l)
    \/ \E h \in HandleIds : RoomForFavourite /\ AddFavourite(h, "Eggs", None)
    \/ \E h \in HandleIds, l \in ListIdInputs :
            RoomForFavourite /\ AddFavouriteToList(h, l, "Eggs", None)
    \/ \E h \in HandleIds, l \in ListIdInputs, f \in FavItemIds : RemoveFavourite(h, l, f)
    \/ \E h \in HandleIds, l \in ListIdInputs, f \in FavItemIds, s \in ShopListIds :
            AddFavouriteToShoppingListFetch(1, h, l, f, s)
    \/ RoomForItems(1) /\ AddFavouriteToShoppingListAdd(1)
    \/ \E h \in HandleIds :
            GetMealPlanEvents(h, "2024-01-01", "2024-01-02",
                Ok(<<[id |-> "e1", date |-> "2024-01-01", title |-> Some(""),
                      recipe_id |-> None, label_id |-> None, details |-> None]>>))
    \/ \E h \in HandleIds :
            CreateMealPlanEvent(h, "cal1", "2024-01-01", None, Some("Brunch"), None,
                Ok([id |-> "e1", date |-> "2024-01-01", title |-> Some("Brunch"),
                    recipe_id |-> None, label_id |-> None, details |-> None]))
    \/ \E h \in HandleIds :
            UpdateMealPlanEvent(h, "cal1", "e1", "2024-01-02", None, Some("Brunch"), None,
                                Ok("unit"))
    \/ \E h \in HandleIds : DeleteMealPlanEvent(h, "cal1", "e1", Ok("unit"))
    \/ \E h \in HandleIds, l \in ShopListIds :
            RoomForPlanned /\ AddMealPlanIngredientsToList(h, l, "2024-01-01", "2024-01-02")
    \/ \E h \in HandleIds :
            EnableIcalendar(h, Ok([enabled |-> TRUE, url |-> Some("https://ical"),
                                   token |-> None]))
    \/ \E h \in HandleIds : DisableIcalendar(h, Ok("unit"))
    \/ \E h \in HandleIds : GetIcalendarUrl(h, Ok(None))
    \/ \E h \in HandleIds, collection \in RsRecipeCollections :
            GetRecipeCollections(h, Ok(<<collection>>))
    \/ \E h \in HandleIds : CreateRecipeCollection(h, "Breakfast",
            Ok([id |-> "rc1", name |-> "Breakfast", recipe_ids |-> <<>>]))
    \/ \E h \in HandleIds : DeleteRecipeCollection(h, "rc1", Ok("unit"))
    \/ \E h \in HandleIds : AddRecipeToCollection(h, "rc1", "r1", Ok("unit"))
    \/ \E h \in HandleIds : RemoveRecipeFromCollection(h, "rc1", "r1", Refused)

Spec == Init /\ [][Next]_vars

(***************************************************************************)
(* Properties.                                                             *)
(***************************************************************************)
NotFoundReason == "Favourite item not found"

\* C1: add_favourite_to_shopping_list fails with exactly "Favourite item not
\* found" whenever the favourites list it fetched holds no item with the id
\* favourite_id; the lookup is the facade's, made over the fetched items:
\* the only Service call of such an invocation is the fetch, and no
\* invocation goes on to its second call with an id the fetched list lacks.
C1_NotFoundByFacade ==
    /\ (/\ last.op = "add_favourite_to_shopping_list"
        /\ IsSome(last.fetched)
        /\ \A i \in 1..Len(Unwrap(last.fetched).items) :
                Unwrap(last.fetched).items[i].id # last.args.favourite_id)
       => /\ ~last.result.ok
          /\ last.result.error.reason = NotFoundReason
          /\ Len(last.calls) = 1
          /\ last.calls[1].fn = "get_favourites_for_list"
    /\ \A t \in Tasks :
        (inflight[t] # Idle /\ inflight[t].pc = "add_favourite_to_shopping_list")
        => \E i \in 1..Len(Unwrap(inflight[t].fetched).items) :
                Unwrap(inflight[t].fetched).items[i].id = inflight[t].args.favourite_id

\* C1 witness: a non-empty favourites list was fetched, it lacks the id, and
\* the caller received the not-found error.
C1_Witness ==
    /\ last.op = "add_favourite_to_shopping_list"
    /\ IsSome(last.fetched)
    /\ Len(Unwrap(last.fetched).items) > 0
    /\ \A i \in 1..Len(Unwrap(last.fetched).items) :
            Unwrap(last.fetched).items[i].id # last.args.favourite_id
    /\ ~last.result.ok
    /\ last.result.error.reason = NotFoundReason

\* The Service calls of the last invocation that failed for a reason of the
\* transport or the session (not of the arguments).
TransportFailure(inv) ==
    \E i \in 1..Len(inv.calls) :
        IsSome(inv.calls[i].error) /\ Unwrap(inv.calls[i].error).kind \in {"Network", "Auth"}

\* C2: add_favourite_to_shopping_list(fav_list, f.id, shop_list) succeeds
\* whenever f is an item of the favourites list fav_list (added by
\* add_favourite_to_list and not removed) and the Service is reachable.
C2_PromotionSucceeds ==
    (/\ last.op = "add_favourite_to_shopping_list"
     /\ last.args.favourite_list_id \in FavListIds
     /\ \E i \in 1..Len(favLists[last.args.favourite_list_id].items) :
            favLists[last.args.favourite_list_id].items[i].id = last.args.favourite_id
     /\ ~TransportFailure(last))
    => last.result.ok

OptionalFields ==
    {"note", "source_name", "source_url", "servings", "prep_time", "cook_time",
     "rating", "nutritional_info", "photo_id"}

\* The recipe update_recipe fetched, and the one the Service stores under
\* its id once the last invocation (an update_recipe) has returned.
Existing == Unwrap(last.fetched)
Stored == recipes[Existing.id]
UpdateReturned == last.op = "update_recipe" /\ last.result.ok

\* C3: whatever options.name is, the recipe update_recipe writes to the
\* Service and the Recipe it returns carry the id and the name of the recipe
\* fetched by get_recipe_by_id(recipe_id); no recipe appears under a new id.
C3_UpdateKeepsIdAndName ==
    UpdateReturned =>
        /\ Existing.id = last.args.recipe_id
        /\ last.result.value.id = Existing.id
        /\ last.result.value.name = Existing.name
        /\ Existing.id \in DOMAIN recipes
        /\ Stored.id = Existing.id
        /\ Stored.name = Existing.name
        /\ \A id \in DOMAIN recipes : id < nextId.recipe
        /\ nextId.recipe <= MaxRecipes + 1

\* C3 witness: an update whose options name the recipe differently returned,
\* and the stored recipe still has the fetched name.
C3_Witness ==
    /\ UpdateReturned
    /\ last.args.options.name # Existing.name
    /\ Stored.name = Existing.name
    /\ last.result.value.name = Existing.name

\* C4 (as claimed): after update_recipe every optional field of the stored
\* recipe is the field of the options, absent where the options have it absent.
C4_AbsentOptionalsCleared ==
    UpdateReturned =>
        \A f \in OptionalFields : Stored[f] = last.args.options[f]

\* C4 (amended): update_recipe replaces the ingredients and the preparation
\* steps by those of the options, replaces each optional field the options
\* have present, and keeps the fetched recipe's value of each optional field
\* the options have absent.
C4_AbsentOptionalsKept ==
    UpdateReturned =>
        /\ \A f \in OptionalFields :
            Stored[f] = IF last.args.options[f] # None
                        THEN last.args.options[f] ELSE Existing[f]
        /\ Stored.preparation_steps = last.args.options.preparation_steps
        /\ Len(Stored.ingredients) = Len(last.args.options.ingredients)
        /\ \A i \in 1..Len(Stored.ingredients) :
            /\ Stored.ingredients[i].name = last.args.options.ingredients[i].name
            /\ Stored.ingredients[i].quantity = last.args.options.ingredients[i].quantity
            /\ Stored.ingredients[i].note = last.args.options.ingredients[i].note

\* C4 witness: an update returned whose options leave absent a field the
\* fetched recipe had, and the stored recipe still has it.
C4_Witness ==
    /\ UpdateReturned
    /\ \E f \in OptionalFields :
        /\ last.args.options[f] = None
        /\ Existing[f] # None
        /\ Stored[f] = Existing[f]
    /\ \E f \in OptionalFields :
        /\ last.args.options[f] # None
        /\ Existing[f] # last.args.options[f]
        /\ Stored[f] = last.args.options[f]

TokensReturned == last.op \in {"get_tokens", "export_tokens"} /\ last.result.ok

\* C5: a handle built by from_tokens(T) returns T from get_tokens /
\* export_tokens, field for field, as long as the Service has not refreshed
\* the session; T ranges over what get_tokens / export_tokens returned.
C5_TokenRoundTrip ==
    (/\ TokensReturned
     /\ Live(last.h)
     /\ IsSome(handles[last.h].given)
     /\ Inner(last.h).tokens = Inner(last.h).built)
    => LET given == Unwrap(handles[last.h].given)
           got == last.result.value
       IN /\ got.access_token = given.access_token
          /\ got.refresh_token = given.refresh_token
          /\ got.user_id = given.user_id
          /\ got.is_premium_user = given.is_premium_user

\* C5 witness: tokens a logged-in client exported were given to from_tokens,
\* and the new handle exported the same tokens.
C5_Witness ==
    /\ TokensReturned
    /\ Live(last.h)
    /\ IsSome(handles[last.h].given)
    /\ Unwrap(handles[last.h].given).access_token \in {"access-1", "access-2"}
    /\ last.result.value = Unwrap(handles[last.h].given)

\* C6: each get_tokens / export_tokens that succeeds returns the tokens the
\* Service session holds when it is called, those of a refresh included.
C6_TokensAreCurrent ==
    [][(last' # last /\ last'.op \in {"get_tokens", "export_tokens"} /\ last'.result.ok)
        => LET current == handles[last'.h].inner.tokens
               got == last'.result.value
           IN /\ got.access_token = current[1]
              /\ got.refresh_token = current[2]
              /\ got.user_id = current[3]
              /\ got.is_premium_user = current[4]]_vars

\* C6 witness: the session was refreshed after the handle was built, and the
\* tokens returned are the refreshed ones.
C6_Witness ==
    /\ TokensReturned
    /\ Live(last.h)
    /\ Inner(last.h).tokens # Inner(last.h).built
    /\ last.result.value.access_token = Inner(last.h).tokens[1]
    /\ last.result.value.access_token # Inner(last.h).built[1]

\* C10: every live handle holds a Service session; a constructor that fails
\* hands no handle to its caller, one that succeeds hands a live handle.
C10_HandlesAuthenticated ==
    /\ \A h \in HandleIds :
        Live(h) => /\ handles[h].inner # NoSession
                   /\ handles[h].inner.tokens # None
                   /\ handles[h].binding \in Bindings
    /\ (last.op \in {"login", "from_tokens"} /\ ~last.result.ok) => last.h = 0
    /\ (last.op \in {"login", "from_tokens"} /\ last.result.ok)
       => last.h \in HandleIds /\ last.result.value = last.h

\* C10 witness: a constructor has failed and its caller holds no handle.
C10_Witness ==
    /\ last.op \in {"login", "from_tokens"} /\ ~last.result.ok /\ last.h = 0
    /\ \A h \in HandleIds : ~Live(h)

Returned == last.op # "none"
Failed == Returned /\ ~last.result.ok
LastCall == last.calls[Len(last.calls)]
ServiceFailed == Failed /\ ~LastCall.ok
Diagnostic == Unwrap(LastCall.error).display

\* C7 as stated: a failed operation fails with the one generic kind, and
\* when a Service call has failed its message is the Service's diagnostic
\* and nothing else.
C7_MessageVerbatim ==
    /\ Failed => last.result.error.status = "GenericFailure"
    /\ ServiceFailed => last.result.error.reason = Diagnostic

\* C7: a failed operation fails with the one generic kind.  When a Service
\* call has failed, the full binding's message is the Service's diagnostic
\* verbatim, and the native binding's message is the diagnostic behind the
\* operation's fixed prefix.  The one failure that no Service call made is
\* add_favourite_to_shopping_list's "Favourite item not found".
C7_ErrorMapping ==
    /\ Failed => last.result.error.status = "GenericFailure"
    /\ (ServiceFailed /\ last.binding = "main")
       => last.result.error.reason = Diagnostic
    /\ (ServiceFailed /\ last.binding = "native")
       => last.result.error.reason = NativePrefix(last.op) \o Diagnostic
    /\ (Failed /\ ~ServiceFailed)
       => /\ last.op = "add_favourite_to_shopping_list"
          /\ last.result.error.reason = NotFoundReason

\* C7 witness: an operation of the native binding has failed in the Service
\* and its message is longer than the diagnostic.
C7_Witness ==
    /\ ServiceFailed /\ last.binding = "native" /\ last.op = "get_lists"
    /\ last.result.error.reason = "Failed to get lists: " \o Diagnostic
    /\ last.result.error.reason # Diagnostic

\* C8: a Service call that fails is the last call of its operation, and the
\* operation fails with that call's error; no operation is suspended after
\* a failed call, and no operation makes the same Service call twice.
C8_NoLocalRecovery ==
    /\ \A i \in 1..Len(last.calls) :
        ~last.calls[i].ok
        => /\ i = Len(last.calls)
           /\ ~last.result.ok
           /\ last.result.error.reason
                = (IF last.binding = "native" THEN NativePrefix(last.op) ELSE "")
                  \o Unwrap(last.calls[i].error).display
    /\ \A i, j \in 1..Len(last.calls) : i # j => last.calls[i].fn # last.calls[j].fn
    /\ \A t \in Tasks :
        inflight[t] # Idle
        => /\ Len(inflight[t].calls) = 1
           /\ inflight[t].calls[1].ok

\* C8 witness: the fetch of an update_recipe or of an
\* add_favourite_to_shopping_list has failed, and it was the only call.
C8_Witness ==
    /\ last.op \in {"update_recipe", "add_favourite_to_shopping_list"}
    /\ Len(last.calls) = 1
    /\ ~last.calls[1].ok
    /\ last.result = Err(to_napi_error(Unwrap(last.calls[1].error)))

SyncOps ==
    {"from_tokens", "get_tokens", "export_tokens",
     "user_id", "is_premium_user", "client_identifier"}
TwoCallOps == {"update_recipe", "add_favourite_to_shopping_list"}
Awaited == {i \in 1..Len(last.calls) : last.calls[i].awaited}

\* C9 as stated: every asynchronous operation that has returned awaited the
\* Service exactly once.
C9_OneSuspensionPoint ==
    (Returned /\ last.op \notin SyncOps) => Cardinality(Awaited) = 1

\* C9: an asynchronous operation awaits the Service exactly once, except
\* update_recipe and add_favourite_to_shopping_list, which await it a second
\* time when their fetch has succeeded (and the favourite was found); the
\* synchronous operations never await.
C9_SuspensionPoints ==
    /\ (Returned /\ last.op \in SyncOps) => Awaited = {}
    /\ (Returned /\ last.op \notin SyncOps \cup TwoCallOps)
       => Len(last.calls) = 1 /\ Awaited = {1}
    /\ (Returned /\ last.op \in TwoCallOps)
       => /\ Awaited = 1..Len(last.calls)
          /\ Len(last.calls) = (IF last.calls[1].ok /\ (last.result.ok \/ ServiceFailed)
                                THEN 2 ELSE 1)

\* C9 witness: update_recipe is suspended between its two Service calls and
\* a delete_recipe of the recipe it fetched has returned in between.
C9_Witness ==
    \E t \in Tasks :
        /\ inflight[t] # Idle /\ inflight[t].pc = "update_recipe"
        /\ last.op = "delete_recipe" /\ last.result.ok
        /\ last.args.recipe_id = inflight[t].args.recipe_id
        /\ inflight[t].args.recipe_id \notin DOMAIN recipes


\* What a caller reads when the Service has rejected the session's tokens.
Rejection == (IF last.binding = "native" THEN NativePrefix(last.op) ELSE "")
             \o AuthError.display
OnRejectedTokens ==
    /\ Returned /\ last.op \notin SyncOps \cup {"login"}
    /\ Live(last.h) /\ Inner(last.h).tokens \notin AcceptedTokens

\* C11: from_tokens makes one Service call, the constructor of the same
\* name, which is not awaited; it never fails because the Service rejects
\* the tokens, and returns a handle whenever that constructor returns a
\* client.  An asynchronous operation on a handle whose tokens the Service
\* rejects fails with the Service's rejection.
C11_ValidityDeferred ==
    /\ last.op = "from_tokens"
       => /\ Len(last.calls) = 1
          /\ last.calls[1].fn = "from_tokens" /\ ~last.calls[1].awaited
          /\ last.calls[1].ok => last.result.ok
          /\ ~last.result.ok => last.result.error.reason # Rejection
    /\ OnRejectedTokens
       => /\ ~last.result.ok
          /\ last.result.error.reason = Rejection
          /\ Len(last.calls) = 1

\* C11 witness: a handle built by from_tokens from tokens the Service
\* rejects is live, and an operation on it has failed with the rejection.
C11_Witness ==
    /\ OnRejectedTokens
    /\ handles[last.h].given = Some(StaleSavedTokens)
    /\ last.op = "get_lists"
    /\ last.result = Err(to_napi_error(AuthError))


ListsReturned == last.op = "get_lists" /\ last.result.ok
ItemsOf(list) == {list.items[i] : i \in 1..Len(list.items)}
ListsOf(result) == {result.value[i] : i \in 1..Len(result.value)}

\* C12: every item of every List get_lists returned has a list_id, and it
\* is the id of that List.
C12_ItemListId ==
    ListsReturned
    => \A L \in ListsOf(last.result) : \A item \in ItemsOf(L) :
            "list_id" \in DOMAIN item /\ item.list_id = L.id

\* C12 witness: the full binding's get_lists has returned two Lists, the
\* second of them holding an item and the first none; the Service's item
\* names the second list, and the item returned has no list_id to say so.
C12_Witness ==
    /\ ListsReturned /\ last.binding = "main"
    /\ Len(last.result.value) = 2
    /\ last.result.value[1].items = <<>>
    /\ LET L == last.result.value[2]
       IN /\ Len(L.items) = 1
          /\ shopLists[L.id].items[1].list_id = L.id
          /\ shopLists[L.id].items[1].id = L.items[1].id
          /\ "list_id" \notin DOMAIN L.items[1]

\* The item with this id in a sequence of items that holds it.
ItemById(items, id) == items[CHOOSE i \in 1..Len(items) : items[i].id = id]

\* C13: update_item makes one Service call and hands it the list id, the
\* item id, the name and each of quantity, note and category as the caller
\* gave them, absent as absent; when the call succeeds the item holds the
\* name given, the quantity and category given (absent when given absent)
\* and the note given (empty when given absent).
C13_UpdateItemForwards ==
    [][(last' # last /\ last'.op = "update_item")
        => LET given == last'.args
               sent == last'.calls[1].sent
           IN /\ Len(last'.calls) = 1
              /\ sent.list_id = given.list_id /\ sent.item_id = given.item_id
              /\ sent.name = given.name
              /\ sent.quantity = given.quantity
              /\ sent.details = given.note
              /\ sent.category = given.category
              /\ last'.result.ok
                 => LET item == ItemById(shopLists'[given.list_id].items, given.item_id)
                    IN /\ item.name = given.name
                       /\ item.quantity = given.quantity
                       /\ item.category = given.category
                       /\ item.details = (IF IsSome(given.note)
                                          THEN Unwrap(given.note) ELSE "")]_vars

\* C13 witness: an update_item that passed quantity, note and category as
\* absent has succeeded, and the item has none of them.
C13_Witness ==
    /\ last.op = "update_item" /\ last.result.ok
    /\ last.args.quantity = None /\ last.args.note = None /\ last.args.category = None
    /\ last.calls[1].sent.quantity = None
    /\ HasItem(shopLists[last.args.list_id].items, last.args.item_id)
    /\ LET item == ItemById(shopLists[last.args.list_id].items, last.args.item_id)
       IN item.name = "Oat milk" /\ item.quantity = None /\ item.category = None


\* C14: bulk_delete_items makes one Service call and hands it the list id
\* and all the ids the caller gave, in the caller's order; when the call
\* fails no list has changed, and when it succeeds the list holds none of
\* the ids and every other item it held, in order.
C14_BulkDeleteOneCall ==
    [][(last' # last /\ last'.op = "bulk_delete_items")
        => LET given == last'.args
               sent == last'.calls[1].sent
               ids == {given.item_ids[i] : i \in 1..Len(given.item_ids)}
           IN /\ Len(last'.calls) = 1
              /\ sent.list_id = given.list_id
              /\ Len(sent.item_ids) = Len(given.item_ids)
              /\ \A i \in 1..Len(given.item_ids) : sent.item_ids[i] = given.item_ids[i]
              /\ ~last'.result.ok => shopLists' = shopLists
              /\ last'.result.ok
                 => shopLists' =
                        [shopLists EXCEPT ![given.list_id].items =
                            SelectSeq(@, LAMBDA x : x.id \notin ids)]]_vars

\* C14 witness: a bulk_delete_items of two ids, one of them an item of the
\* list, has succeeded; the Service was handed both and the list is empty.
C14_Witness ==
    /\ last.op = "bulk_delete_items" /\ last.result.ok
    /\ Len(last.args.item_ids) = 2
    /\ last.calls[1].sent.item_ids = last.args.item_ids
    /\ nextId.item > 1
    /\ shopLists[last.args.list_id].items = <<>>


Suspended(t) == inflight[t] # Idle
SomeIdle == \E u \in Tasks : inflight[u] = Idle

\* C15: an operation that is waiting for the Service blocks nothing on its
\* handle: a read and a mutator of the same recipe can be issued and
\* served, another update_recipe can start while a slot of the runtime is
\* idle, and each waiting operation can be the next one served, whichever
\* was issued first.
C15_NoLockNoOrder ==
    \A t \in Tasks :
        (Suspended(t) /\ inflight[t].pc = "update_recipe")
        => LET h == inflight[t].h
               id == inflight[t].args.recipe_id
           IN /\ ENABLED GetRecipeById(h, id)
              /\ ENABLED DeleteRecipe(h, id)
              /\ SomeIdle => \E u \in Tasks : ENABLED UpdateRecipeFetch(u, h, id, OptionsRated)
              /\ \A u \in Tasks : Suspended(u) => ENABLED UpdateRecipeSave(u)

\* C15 witness: two update_recipe calls on one handle are both waiting for
\* the Service, and a get_recipe_by_id issued on that handle meanwhile has
\* returned the recipe as it was before either of them saved.
C15_Witness ==
    /\ \A t \in Tasks : Suspended(t) /\ inflight[t].pc = "update_recipe"
    /\ \A t, u \in Tasks : inflight[t].h = inflight[u].h
    /\ last.op = "get_recipe_by_id" /\ last.result.ok /\ last.h = inflight[1].h
    /\ last.args.recipe_id = inflight[1].args.recipe_id
    /\ last.result.value = RecipeFromRs(Unwrap(inflight[1].fetched))
    /\ last.result.value.rating # inflight[1].args.options.rating


\* The boundary record holds, in each of these fields, what the Service
\* record holds: absent for absent, and the same value for a present one.
SameOptionals(got, svc, fields) == \A f \in fields : got[f] = svc[f]
SameOptionalsEach(got, svc, fields) ==
    /\ Len(got) = Len(svc)
    /\ \A i \in 1..Len(got) : SameOptionals(got[i], svc[i], fields)
ListItemOptionals(binding) ==
    IF binding = "native" THEN {"quantity", "category", "user_id", "product_upc"}
    ELSE {"quantity", "category"}
IngredientOptionals == {"quantity", "note"}
FavouriteItemOptionals == {"quantity", "details", "category"}

\* C16: every record a method returns has each optional field absent
\* exactly when the Service's record has it absent, and holding the
\* Service's value, the empty string included, when it is present:
\* Recipe and its Ingredients, ListItem, FavouritesList and its
\* FavouriteItems, Category, MealPlanEvent and ICalendarInfo.
C16_OptionalityPreserved ==
    [][(last' # last /\ last'.result.ok)
        => LET op == last'.op
               got == last'.result.value
           IN /\ op \in {"create_recipe", "get_recipe_by_id"}
                 => /\ SameOptionals(got, recipes'[got.id], OptionalFields)
                    /\ SameOptionalsEach(got.ingredients, recipes'[got.id].ingredients,
                                         IngredientOptionals)
              /\ op = "get_lists"
                 => \A l \in 1..Len(got) :
                        SameOptionalsEach(got[l].items, SvcGetLists(None).value[l].items,
                                          ListItemOptionals(last'.binding))
              /\ op = "add_item"
                 => SameOptionals(got, ItemById(shopLists'[last'.args.list_id].items, got.id),
                                  ListItemOptionals(last'.binding))
              /\ op = "get_favourites_for_list"
                 => /\ SameOptionals(got, favLists[got.id], {"shopping_list_id"})
                    /\ SameOptionalsEach(got.items, favLists[got.id].items,
                                         FavouriteItemOptionals)
              /\ op = "add_favourite_to_list"
                 => SameOptionals(got, ItemById(favLists'[last'.args.list_id].items, got.id),
                                  FavouriteItemOptionals)
              /\ op = "create_category"
                 => SameOptionals(got, Unwrap(last'.fetched), {"icon"})
              /\ op = "get_meal_plan_events"
                 => SameOptionalsEach(got, Unwrap(last'.fetched),
                                      {"title", "recipe_id", "label_id", "details"})
              /\ op = "enable_icalendar"
                 => SameOptionals(got, Unwrap(last'.fetched), {"url", "token"})]_vars

\* C16 witness: a recipe whose note is a present empty string and whose
\* servings are absent has been read back with the note present and empty
\* and the servings absent.
C16_Witness ==
    /\ last.op = "get_recipe_by_id" /\ last.result.ok
    /\ last.result.value.note = Some("")
    /\ last.result.value.servings = None
    /\ recipes[last.args.recipe_id].note = Some("")
    /\ recipes[last.args.recipe_id].servings = None


\* C17: the recipe create_recipe has the Service store has the name of the
\* options, their ingredients in order (name, and quantity and note as
\* given, absent when absent), their preparation steps in order and each
\* optional field as given, absent when absent; the Recipe returned carries
\* the id the Service assigned, which no recipe had before, and as many
\* ingredients as the options.
C17_CreateRecipeSubmits ==
    [][(last' # last /\ last'.op = "create_recipe" /\ last'.result.ok)
        => LET options == last'.args.options
               got == last'.result.value
               stored == recipes'[got.id]
           IN /\ got.id \notin DOMAIN recipes /\ got.id \in DOMAIN recipes'
              /\ got.id = nextId.recipe
              /\ stored.name = options.name /\ got.name = options.name
              /\ Len(stored.ingredients) = Len(options.ingredients)
              /\ \A i \in 1..Len(options.ingredients) :
                    /\ stored.ingredients[i].name = options.ingredients[i].name
                    /\ stored.ingredients[i].quantity = options.ingredients[i].quantity
                    /\ stored.ingredients[i].note = options.ingredients[i].note
              /\ stored.preparation_steps = options.preparation_steps
              /\ \A f \in OptionalFields : stored[f] = options[f]
              /\ Len(got.ingredients) = Len(options.ingredients)
              /\ Len(last'.calls) = 1]_vars

\* C17 witness: create_recipe of two ingredients, one with a quantity only,
\* has returned a Recipe with an id and two ingredients, stored as given.
C17_Witness ==
    /\ last.op = "create_recipe" /\ last.result.ok
    /\ last.args.options = OptionsFull
    /\ Len(last.result.value.ingredients) = 2
    /\ last.result.value.id \in DOMAIN recipes
    /\ recipes[last.result.value.id].ingredients[1].quantity = Some("2 cups")
    /\ recipes[last.result.value.id].ingredients[1].note = None
    /\ recipes[last.result.value.id].rating = Some(4)


PromotionNotFound(inv) ==
    /\ inv.op = "add_favourite_to_shopping_list"
    /\ ~inv.result.ok /\ inv.result.error.reason = NotFoundReason

\* C18: an add_favourite_to_shopping_list that fails with "Favourite item
\* not found" has made one Service call, the read of the favourites list,
\* which succeeded, and has changed no shopping list and no favourites
\* list; an invocation goes on to the Service's
\* add_favourite_to_shopping_list only with a favourite of the list it read
\* whose id is favourite_id.
C18_NotFoundChangesNothing ==
    [][/\ (last' # last /\ PromotionNotFound(last'))
          => /\ Len(last'.calls) = 1
             /\ last'.calls[1].fn = "get_favourites_for_list" /\ last'.calls[1].ok
             /\ shopLists' = shopLists /\ favLists' = favLists
             /\ nextId' = nextId /\ inflight' = inflight
       /\ \A t \in Tasks :
            (/\ inflight'[t] # inflight[t] /\ inflight'[t] # Idle
             /\ inflight'[t].pc = "add_favourite_to_shopping_list")
            => /\ inflight'[t].base.id = inflight'[t].args.favourite_id
               /\ HasItem(Unwrap(inflight'[t].fetched).items,
                          inflight'[t].args.favourite_id)]_vars

\* C18 witness: the favourites list read holds an item, the id asked for is
\* not its id, the operation has failed with "Favourite item not found"
\* after its one call, and the shopping list holds no item.
C18_Witness ==
    /\ PromotionNotFound(last)
    /\ Len(last.calls) = 1
    /\ Len(Unwrap(last.fetched).items) > 0
    /\ ~HasItem(Unwrap(last.fetched).items, last.args.favourite_id)
    /\ \A l \in ShopListIds : shopLists[l].items = <<>>
    /\ nextId.item = 1


\* The recipe the Service stores after update_recipe(recipe.id, options)
\* has run alone on `recipe`.
Updated(recipe, options) ==
    BuiltRecipe(update_recipe_builder(RecipeBuilderFrom(recipe), options), recipe.id)

\* C19: when two update_recipe calls of one recipe were both based on the
\* same fetched recipe and both have saved, the recipe stored is the one
\* that running them one after the other, in one order or the other, stores.
C19_UpdatesSerializable ==
    [][(/\ last' # last
        /\ last.op = "update_recipe" /\ last.result.ok
        /\ last'.op = "update_recipe" /\ last'.result.ok
        /\ last'.h = last.h
        /\ last'.args.recipe_id = last.args.recipe_id
        /\ last'.fetched = last.fetched)
        => LET base == Unwrap(last.fetched)
               first == last.args.options
               second == last'.args.options
           IN recipes'[base.id] \in
                {Updated(Updated(base, first), second),
                 Updated(Updated(base, second), first)}]_vars


\* C20: whenever add_favourite_to_shopping_list hands a favourite to the
\* Service's add_favourite_to_shopping_list, the favourite has the id
\* favourite_id and is, at that moment, an item of the favourites list it
\* was fetched from.
C20_PromotedFavouriteIsMember ==
    [][\A t \in Tasks :
        (/\ inflight[t] # Idle /\ inflight[t].pc = "add_favourite_to_shopping_list"
         /\ inflight'[t] = Idle)
        => /\ inflight[t].base.id = inflight[t].args.favourite_id
           /\ HasItem(favLists[Unwrap(inflight[t].fetched).id].items,
                      inflight[t].base.id)]_vars

====
